---- MODULE Spec2Model ----
(***************************************************************************)
(* Gap-detection pipeline of Data-Bone (backend/app/ai): the LLM retry and  *)
(* model-fallback loop, the vector search with its retries, the multi-probe *)
(* RAG retrieval and the detect_gaps orchestrator.                          *)
(*                                                                          *)
(* Texts are TLA+ strings handled character by character (Len, SubSeq, \o), *)
(* so substring tests, lower-casing, trimming and truncation are computed   *)
(* the way the Python code computes them.                                   *)
(***************************************************************************)
EXTENDS Integers, Sequences, FiniteSets, TLC

VARIABLES
    \* ---- LLMService (llm_service.py) ----
    gemini_model,       \* settings.gemini_model
    ctor_fails,         \* models whose ChatVertexAI(...) construction raises
    llm,                \* model behind self.llm
    initialized_model,  \* self.initialized_model
    llm_pc,             \* "idle" | "running" | "returned" | "fallback" | "raised"
    attempt,            \* loop variable of `for attempt in range(max_retries)`
    user_prompt,        \* "full" | "simplified"
    invoked,            \* history: one record per self.llm.invoke call
    raise_reason,       \* which raise statement ended the call
    analysis,           \* result["analysis"] of the call
    course_code,        \* course_info['course_code'] of the call
    \* ---- VectorDB (vector_db.py) ----
    collection,         \* records of the ChromaDB collection
    ss_pc,              \* search_similar: "idle" | "attempting" | "returned" | "raised"
    ss_where,           \* the `where` argument
    ss_n,               \* the n_results argument
    ss_dist,            \* distance of each record to the query embedding (tenths)
    ss_attempt,         \* loop variable of `for attempt in range(max_retries)`
    ss_queries,         \* history: one record per self.collection.query call
    ss_sleeps,          \* history: the time.sleep arguments (tenths of a second)
    ss_result,          \* the returned dictionary
    \* ---- GapDetector retrieval (gap_detector.py) ----
    rag_pc,             \* "idle" | "probing" | "returned" | "raised"
    rag_op,             \* the method that is running
    rag_document_id,    \* its document_id argument
    rag_max_total_chars,\* max_total_chars of get_context_for_gaps
    rag_input,          \* gap_concepts of get_context_for_gaps, gaps of _enhance_gaps_with_rag
    rag_todo,           \* the probes (queries, concepts or gaps) still to run
    rag_log,            \* history: one record per probe gone through
    all_chunks,         \* the local list all_chunks
    context_parts,      \* the chunks joined into the output
    rag_output,         \* the returned value
    rag_within,         \* history: texts the index returned with distance <= 1.5
    rag_dropped,        \* history: why returned chunks stayed out of the lists
    enhanced_gaps,      \* the list _enhance_gaps_with_rag builds
    \* ---- GapDetector.detect_gaps (gap_detector.py) ----
    dg_pc,              \* "idle", the step to run next, "returned" or "raised"
    dg_document,        \* the document argument
    dg_events,          \* history: the stages passed to progress_callback
    dg_chunks,          \* the local chunks, with their pages
    dg_rag_context,     \* the local rag_context
    dg_analysis,        \* analysis_result["analysis"]
    dg_gaps,            \* the local gaps; the returned list at the end
    dg_calls,           \* history: the collaborators detect_gaps has called
    \* ---- analyze_document_stream (api/analyze.py) ----
    an_pc,              \* event_generator: "idle", the step to run next, "done"
    an_thread,          \* analysis_thread: "not_started" | "running" | "got_gaps" | "exiting" | "dead"
    an_script,          \* the stages the worker has still to report
    an_outcome,         \* how get_gaps_for_document ends in this run
    progress_queue,     \* the queue.Queue between worker and generator
    an_put,             \* history: every stage put on progress_queue
    an_sent,            \* history: every event yielded to the client
    iteration,          \* the local iteration
    completed_event_received, \* the local completed_event_received
    events_emitted,     \* the local events_emitted
    gaps_result,        \* gaps_result[0]: "none" | "gaps" | "no_gaps"
    error_result,       \* error_result[0]: "none" | "raised"
    \* ---- Embedder (embedder.py) ----
    emb_model,          \* self.model: "none" | "set"
    emb_lock,           \* the thread holding self._model_lock
    emb_pc,             \* per thread: "idle" or the step to run next
    emb_via,            \* per thread: how the call passed _load_model
    emb_calls,          \* per thread: calls made so far
    emb_constructions,  \* history: the assignments to self.model
    emb_encodes,        \* history: the self.model.encode calls
    \* ---- PDFParser.chunk_text (pdf_parser.py) ----
    ck_pc,              \* "idle" | "running" | "returned"
    ck_op,              \* the method that is running
    ck_text,            \* text, or combined_text
    ck_chunk_size,      \* chunk_size, or optimal_chunk_size
    ck_overlap,         \* overlap, or optimal_overlap
    ck_boundaries,      \* page_boundaries
    ck_start,           \* the local start
    ck_chunks,          \* the local chunks
    ck_windows,         \* history: start and end of each iteration
    \* ---- GapDetector._parse_gaps_from_analysis (gap_detector.py) ----
    pa_pc,              \* "idle", the pass that comes next, "returned", "done"
    pa_text,            \* analysis_text
    pa_doc,             \* document.extraction.text
    pa_sections,        \* the sections the loop has not seen yet
    pa_current,         \* current_gap
    pa_gaps,            \* gaps
    pa_ran,             \* history: the strategies that ran, the event of step 7
    \* ---- VectorDB.add_documents (vector_db.py) ----
    ad_pc,              \* per thread: "idle", the step to run next, "returned", "raised"
    ad_batch,           \* per thread: documents, metadatas and ids of the call
    ad_existing,        \* per thread: the local existing_ids
    ad_runs,            \* per thread: calls made so far
    \* ---- LLMService.analyze_document_for_gaps: the prompt (llm_service.py) ----
    pr_pc,              \* "idle", the step to run next, "simplified"
    pr_document_text,   \* the document_text argument
    pr_rag_context,     \* the rag_context argument
    pr_prompts,         \* history: the user prompts built, with their text
    \* ---- LLMService.chat_with_context (llm_service.py) ----
    chat_llm,           \* model behind self.chat_llm, NoModel for None
    ch_pc,              \* "idle" | "running" | "returned" | "apology" | "raised"
    ch_attempt,         \* loop variable of `for attempt in range(max_retries)`
    ch_depth,           \* calls of chat_with_context by itself
    ch_message,         \* the user message of the prompt: "full" | "sanitized"
    ch_invoked,         \* history: one record per llm_to_use.invoke call
    \* ---- analyze_document_for_gaps in two threads (llm_service.py) ----
    th_pc,              \* per thread: "idle", the step to run next, how the call ended
    th_attempt,         \* per thread: loop variable of the retry loop
    th_prompt,          \* per thread: "full" | "simplified"
    th_model_name,      \* per thread: the local model_name
    th_sent,            \* per thread: the model the failed invoke went to
    th_next,            \* per thread: the model _reinitialize_with_fallback builds
    th_invoked,         \* history: the self.llm.invoke calls made
    th_reinit           \* history: the _reinitialize_with_fallback calls made

llmVars == <<gemini_model, ctor_fails, llm, initialized_model, llm_pc, attempt,
             user_prompt, invoked, raise_reason, analysis, course_code>>

searchVars == <<collection, ss_pc, ss_where, ss_n, ss_dist, ss_attempt,
                ss_queries, ss_sleeps, ss_result>>

ragVars == <<rag_pc, rag_op, rag_document_id, rag_max_total_chars, rag_input,
             rag_todo, rag_log,
             all_chunks, context_parts, rag_output, rag_within, rag_dropped,
             enhanced_gaps>>

detectVars == <<dg_pc, dg_document, dg_events, dg_chunks, dg_rag_context,
                dg_analysis, dg_gaps, dg_calls>>

streamVars == <<an_pc, an_thread, an_script, an_outcome, progress_queue, an_put,
                an_sent, iteration, completed_event_received, events_emitted,
                gaps_result, error_result>>

embedVars == <<emb_model, emb_lock, emb_pc, emb_via, emb_calls,
               emb_constructions, emb_encodes>>

\* The components outside the gap detection pipeline
chunkVars == <<ck_pc, ck_op, ck_text, ck_chunk_size, ck_overlap, ck_boundaries,
               ck_start, ck_chunks, ck_windows>>

parseVars == <<pa_pc, pa_text, pa_doc, pa_sections, pa_current, pa_gaps, pa_ran>>

addVars == <<ad_pc, ad_batch, ad_existing, ad_runs>>

promptVars == <<pr_pc, pr_document_text, pr_rag_context, pr_prompts>>

chatVars == <<chat_llm, ch_pc, ch_attempt, ch_depth, ch_message, ch_invoked>>

threadVars == <<th_pc, th_attempt, th_prompt, th_model_name, th_sent, th_next,
                th_invoked, th_reinit>>

otherVars == <<streamVars, embedVars, chunkVars, parseVars, addVars, promptVars,
               chatVars, threadVars>>

vars == <<llmVars, searchVars, ragVars, detectVars, otherVars>>

\* Variables each component leaves alone.
searchCallVars == <<ss_pc, ss_where, ss_n, ss_dist, ss_attempt, ss_queries,
                    ss_sleeps, ss_result>>
nonLLM == <<searchVars, ragVars, detectVars, otherVars>>
nonSearch == <<llmVars, ragVars, detectVars, otherVars>>
nonRag == <<llmVars, searchCallVars, detectVars, otherVars>>
nonDetect == <<llmVars, searchCallVars, ragVars, otherVars>>
pipelineVars == <<llmVars, searchVars, ragVars, detectVars>>
nonStream == <<pipelineVars, embedVars, chunkVars, parseVars, addVars, promptVars,
    chatVars, threadVars>>
nonEmbed == <<pipelineVars, streamVars, chunkVars, parseVars, addVars, promptVars,
    chatVars, threadVars>>
nonChunk == <<pipelineVars, streamVars, embedVars, parseVars, addVars, promptVars,
    chatVars, threadVars>>
nonParse == <<pipelineVars, streamVars, embedVars, chunkVars, addVars, promptVars,
    chatVars, threadVars>>
nonAdd == <<llmVars, searchCallVars, ragVars, detectVars, streamVars, embedVars,
            chunkVars, parseVars, promptVars,
    chatVars, threadVars>>
nonPrompt == <<pipelineVars, streamVars, embedVars, chunkVars, parseVars, addVars,
    chatVars, threadVars>>

-----------------------------------------------------------------------------
(* Strings *)

Min(S) == CHOOSE x \in S : \A y \in S : x <= y
Max(S) == CHOOSE x \in S : \A y \in S : x >= y

\* Python `b in a`
Contains(a, b) ==
    \E i \in 1..(Len(a) - Len(b) + 1) : SubSeq(a, i, i + Len(b) - 1) = b

LowerChar(c) ==
    CASE c = "A" -> "a" [] c = "B" -> "b" [] c = "C" -> "c" [] c = "D" -> "d"
      [] c = "E" -> "e" [] c = "F" -> "f" [] c = "G" -> "g" [] c = "H" -> "h"
      [] c = "I" -> "i" [] c = "J" -> "j" [] c = "K" -> "k" [] c = "L" -> "l"
      [] c = "M" -> "m" [] c = "N" -> "n" [] c = "O" -> "o" [] c = "P" -> "p"
      [] c = "Q" -> "q" [] c = "R" -> "r" [] c = "S" -> "s" [] c = "T" -> "t"
      [] c = "U" -> "u" [] c = "V" -> "v" [] c = "W" -> "w" [] c = "X" -> "x"
      [] c = "Y" -> "y" [] c = "Z" -> "z" [] OTHER -> c

RECURSIVE LowerRange(_, _, _)
\* lower-case of s[lo..hi], by halves
LowerRange(s, lo, hi) ==
    IF lo > hi THEN ""
    ELSE IF lo = hi THEN LowerChar(SubSeq(s, lo, lo))
    ELSE LET mid == (lo + hi) \div 2
         IN  LowerRange(s, lo, mid) \o LowerRange(s, mid + 1, hi)

\* Python str.lower()
Lower(s) == LowerRange(s, 1, Len(s))

IsSpace(c) == c \in {" ", "\n", "\t", "\r"}

\* Python str.strip()
RECURSIVE LStrip(_)
LStrip(s) ==
    IF s = "" THEN ""
    ELSE IF IsSpace(SubSeq(s, 1, 1)) THEN LStrip(SubSeq(s, 2, Len(s)))
    ELSE s

RECURSIVE RStrip(_)
RStrip(s) ==
    IF s = "" THEN ""
    ELSE IF IsSpace(SubSeq(s, Len(s), Len(s))) THEN RStrip(SubSeq(s, 1, Len(s) - 1))
    ELSE s

Strip(s) == RStrip(LStrip(s))

\* Python s[:n] for n >= 0
Prefix(s, n) == SubSeq(s, 1, IF n < Len(s) THEN n ELSE Len(s))

\* Python s.rfind(c) for a one-character c: 0-based index, -1 when absent
RFind(s, c) ==
    LET hits == {i \in 1..Len(s) : SubSeq(s, i, i) = c}
    IN  IF hits = {} THEN -1 ELSE Max(hits) - 1

RECURSIVE Rep(_, _)
\* Python c * n, by halves
Rep(c, n) ==
    IF n <= 0 THEN ""
    ELSE IF n = 1 THEN c
    ELSE Rep(c, n \div 2) \o Rep(c, n - (n \div 2))

\* s[i] (1-based), "" outside the string
At(s, i) == IF 1 <= i /\ i <= Len(s) THEN SubSeq(s, i, i) ELSE ""

\* s[i:].startswith(sub)
StartsAt(s, sub, i) ==
    /\ i >= 1
    /\ i + Len(sub) - 1 <= Len(s)
    /\ SubSeq(s, i, i + Len(sub) - 1) = sub

\* Python s[a:b] for 1-based a and inclusive b
Slice(s, a, b) == IF a > b THEN "" ELSE SubSeq(s, Max({a, 1}), Min({b, Len(s)}))

\* First position (1-based) at or after `from` where sub occurs, 0 if none
FindFrom(s, sub, from) ==
    LET at == {i \in from..(Len(s) - Len(sub) + 1) : StartsAt(s, sub, i)}
    IN  IF at = {} THEN 0 ELSE Min(at)

\* re.sub(r'\s+', ' ', s), by halves
RECURSIVE SqueezeRange(_, _, _)
SqueezeRange(s, lo, hi) ==
    IF lo > hi THEN ""
    ELSE IF lo = hi
         THEN IF IsSpace(At(s, lo))
              THEN (IF IsSpace(At(s, lo - 1)) THEN "" ELSE " ")
              ELSE At(s, lo)
    ELSE LET mid == (lo + hi) \div 2
         IN  SqueezeRange(s, lo, mid) \o SqueezeRange(s, mid + 1, hi)

SqueezeSpace(s) == SqueezeRange(s, 1, Len(s))

\* s.split(sep), by the positions of the separator
RECURSIVE SplitFrom(_, _, _)
SplitFrom(s, sep, from) ==
    LET at == FindFrom(s, sep, from)
    IN  IF at = 0 THEN <<Slice(s, from, Len(s))>>
        ELSE <<Slice(s, from, at - 1)>> \o SplitFrom(s, sep, at + Len(sep))

Split(s, sep) == SplitFrom(s, sep, 1)

-----------------------------------------------------------------------------
(* LLMService: model priority list and re-initialisation *)

\* for attempt in range(max_retries)
MaxRetries == 3

NoModel == "<none>"

RECURSIVE DedupFrom(_, _, _)
DedupFrom(seq, i, seen) ==
    IF i > Len(seq) THEN <<>>
    ELSE IF seq[i] \in seen THEN DedupFrom(seq, i + 1, seen)
    ELSE <<seq[i]>> \o DedupFrom(seq, i + 1, seen \cup {seq[i]})

\* models_to_try after "Remove duplicates"
ModelsToTry(gm) ==
    DedupFrom(<<"gemini-2.5-pro", "gemini-2.5-flash", "gemini-2.0-pro-exp",
                "gemini-2.0-flash-exp", "gemini-2.0-flash", gm,
                "gemini-1.5-flash">>, 1, {})

\* list.index, 1-based; 0 stands for ValueError
IndexOf(seq, x) ==
    IF \E i \in 1..Len(seq) : seq[i] = x
    THEN Min({i \in 1..Len(seq) : seq[i] = x})
    ELSE 0

\* "Try models after the failed one": models_to_try[failed_index + 1:]
FallbackFrom_Same(models, failed_index) == SubSeq(models, failed_index, Len(models))
FallbackFrom(models, failed_index) == SubSeq(models, failed_index + 1, Len(models))

FallbackCandidates(gm, failed_model) ==
    LET models == ModelsToTry(gm)
        failed_index == IndexOf(models, failed_model)
    IN  IF failed_index = 0 THEN models ELSE FallbackFrom(models, failed_index)

\* _reinitialize_with_fallback: the first candidate whose client can be built,
\* NoModel when the loop falls through to the final raise.
ReinitializeWithFallback(gm, failed_model, fails) ==
    LET cand == FallbackCandidates(gm, failed_model)
        ok == {i \in 1..Len(cand) : cand[i] \notin fails}
    IN  IF ok = {} THEN NoModel ELSE cand[Min(ok)]

\* _initialize_llm: the first model of the list whose client can be built.
InitializeLLM(gm, fails) ==
    LET models == ModelsToTry(gm)
        ok == {i \in 1..Len(models) : models[i] \notin fails}
    IN  IF ok = {} THEN NoModel ELSE models[Min(ok)]

-----------------------------------------------------------------------------
(* LLMService.analyze_document_for_gaps: classification of an invoke error *)

IsModelNotFound(error_str) ==
    \/ Contains(error_str, "404")
    \/ (Contains(Lower(error_str), "not found") /\ Contains(Lower(error_str), "model"))

IsSafetyBlock(error_str) ==
    \/ Contains(Lower(error_str), "blocked")
    \/ Contains(Lower(error_str), "safety")

\* The order of the two `if` tests in the except block.
Classify(error_str) ==
    IF IsModelNotFound(error_str) THEN "model_not_found"
    ELSE IF IsSafetyBlock(error_str) THEN "safety"
    ELSE "other"

\* Messages the provider raises.
ErrorMessages ==
    { "429 Resource exhausted: rate limit reached",
      "404 Publisher Model was not found",
      "Model gemini is not found or access is denied",
      "Requested entity was not found",
      "Response blocked by safety filters",
      "Candidate was BLOCKED",
      "404 request blocked" }

\* The fallback response of the last blocked attempt.
FallbackAnalysis_Unlabelled(cc) ==
    "Gap Analysis for " \o cc \o "\n\n" \o
    "A detailed analysis is not available. Please review your document."
FallbackAnalysis(cc) ==
    "Gap Analysis for " \o cc \o "\n\n" \o
    "Due to content filtering, a detailed analysis could not be generated automatically.\n\n" \o
    "Please review your document manually and identify:\n" \o
    "- Concepts mentioned but not fully explained\n" \o
    "- Topics that appear in assignments but weren't covered in notes\n" \o
    "- Mathematical or computational concepts that need deeper explanation\n\n" \o
    "For best results, try uploading a different document or contact support if this persists."

\* Texts the model answers with.
LLMOutputs ==
    { "CRITICAL GAP: Power Method\nExplanation: The power method finds the dominant eigenvalue.\nWhy Needed: Required for Assignment 3, Question 2.",
      "The document is fine." }

CourseCodes == {"CS101", "Course"}

-----------------------------------------------------------------------------
(* GapDetector._is_error_or_fallback_message and the guard that opens       *)
(* _parse_gaps_from_analysis                                                 *)

\* len(text.strip()) < 50 -> not an error message
MinErrorTextLen == 50

ErrorIndicators ==
    { "for best results, try uploading",
      "contact support if this persists",
      "due to content filtering",
      "please review your document manually",
      "a detailed analysis could not be generated",
      "could not be generated automatically",
      "try uploading a different document",
      "please review your document",
      "manually and identify" }

ErrorCount(text) ==
    Cardinality({ind \in ErrorIndicators : Contains(Lower(text), ind)})

IsErrorOrFallbackMessage(text) ==
    /\ text # ""
    /\ Len(Strip(text)) >= MinErrorTextLen
    /\ \/ ErrorCount(text) >= 2
       \/ /\ Contains(Lower(text), "gap analysis for")
          /\ Contains(Lower(text), "due to content filtering")

\* _parse_gaps_from_analysis: `parsed` is what the parsing passes make of a
\* text that is not rejected.
ParseGapsFromAnalysis(text, parsed) ==
    IF IsErrorOrFallbackMessage(text) THEN <<>> ELSE parsed

-----------------------------------------------------------------------------
(* LLMService.analyze_document_for_gaps: the retry loop, one action per     *)
(* iteration                                                                 *)

LLMTerminal == {"returned", "fallback", "raised"}

\* The call is entered on a constructed service.
AnalyzeStart ==
    /\ llm_pc \in {"idle"} \cup LLMTerminal
    /\ \E cc \in CourseCodes : course_code' = cc
    /\ llm_pc' = "running"
    /\ attempt' = 0
    /\ user_prompt' = "full"
    /\ invoked' = <<>>
    /\ raise_reason' = "none"
    /\ analysis' = ""
    /\ UNCHANGED <<gemini_model, ctor_fails, llm, initialized_model>>
    /\ UNCHANGED nonLLM

Invocation(err) == [model |-> llm, prompt |-> user_prompt, error |-> err]

\* `continue`; after the last iteration the loop ends and line 607 raises.
ContinueLoop_NoCount ==
    /\ attempt' = attempt
    /\ llm_pc' = "running"
    /\ raise_reason' = raise_reason
ContinueLoop ==
    /\ attempt' = attempt + 1
    /\ IF attempt + 1 < MaxRetries
       THEN llm_pc' = "running" /\ raise_reason' = raise_reason
       ELSE llm_pc' = "raised" /\ raise_reason' = "retries_exhausted"

\* response = self.llm.invoke(messages) succeeds: return the analysis.
LLMInvokeOk ==
    /\ llm_pc = "running"
    /\ \E text \in LLMOutputs : analysis' = text
    /\ invoked' = Append(invoked, Invocation(""))
    /\ llm_pc' = "returned"
    /\ UNCHANGED <<gemini_model, ctor_fails, llm, initialized_model, attempt,
                   user_prompt, raise_reason, course_code>>
    /\ UNCHANGED nonLLM

\* invoke raises a model-not-found error: re-initialise and retry, or raise
\* when the re-initialisation fails.
LLMInvokeModelNotFound ==
    /\ llm_pc = "running"
    /\ \E e \in ErrorMessages :
        /\ Classify(e) = "model_not_found"
        /\ invoked' = Append(invoked, Invocation(e))
    /\ LET next_model == ReinitializeWithFallback(gemini_model, initialized_model, ctor_fails)
       IN  IF next_model = NoModel
           THEN /\ llm_pc' = "raised"
                /\ raise_reason' = "fallback_failed"
                /\ UNCHANGED <<llm, initialized_model, attempt>>
           ELSE /\ llm' = next_model
                /\ initialized_model' = next_model
                /\ ContinueLoop
    /\ UNCHANGED <<gemini_model, ctor_fails, user_prompt, analysis, course_code>>
    /\ UNCHANGED nonLLM

\* invoke is blocked by the safety filter: retry with the simplified prompt,
\* or return the fallback analysis on the last attempt.
LLMInvokeSafetyBlocked ==
    /\ llm_pc = "running"
    /\ \E e \in ErrorMessages :
        /\ Classify(e) = "safety"
        /\ invoked' = Append(invoked, Invocation(e))
    /\ IF attempt < MaxRetries - 1
       THEN /\ user_prompt' = "simplified"
            /\ ContinueLoop
            /\ UNCHANGED analysis
       ELSE /\ llm_pc' = "fallback"
            /\ analysis' = FallbackAnalysis(course_code)
            /\ UNCHANGED <<user_prompt, attempt, raise_reason>>
    /\ UNCHANGED <<gemini_model, ctor_fails, llm, initialized_model, course_code>>
    /\ UNCHANGED nonLLM

\* Any other error: "Different error - raise immediately".
LLMInvokeOtherError_Retry ==
    /\ llm_pc = "running"
    /\ \E e \in ErrorMessages :
        /\ Classify(e) = "other"
        /\ invoked' = Append(invoked, Invocation(e))
    /\ ContinueLoop
    /\ UNCHANGED <<gemini_model, ctor_fails, llm, initialized_model,
                   user_prompt, analysis, course_code>>
    /\ UNCHANGED nonLLM
LLMInvokeOtherError ==
    /\ llm_pc = "running"
    /\ \E e \in ErrorMessages :
        /\ Classify(e) = "other"
        /\ invoked' = Append(invoked, Invocation(e))
    /\ llm_pc' = "raised"
    /\ raise_reason' = "non_safety_error"
    /\ UNCHANGED <<gemini_model, ctor_fails, llm, initialized_model, attempt,
                   user_prompt, analysis, course_code>>
    /\ UNCHANGED nonLLM

\* Configurations of the service: the configured model, and the models whose
\* client cannot be built.
-----------------------------------------------------------------------------
(* VectorDB: the collection and its query *)

\* Chunk texts: a 250-character sentence, the same sentence followed by 100
\* more characters, and two short ones.
TextSentence == Rep("a", 249) \o "."
TextSentenceMore == TextSentence \o Rep("b", 100)
TextShort == "Power Method definition."
TextOther == "Notes of another course."

\* Records as detect_gaps stores them: id '<document_id>_chunk_<i>', metadata
\* {document_id, page}, stripped non-empty text.
Catalog ==
    { [key |-> 1, id |-> "docA_chunk_0", document_id |-> "docA", page |-> 1, text |-> TextSentence],
      [key |-> 2, id |-> "docA_chunk_1", document_id |-> "docA", page |-> 2, text |-> TextSentenceMore],
      [key |-> 3, id |-> "docA_chunk_2", document_id |-> "docA", page |-> 2, text |-> TextShort],
      [key |-> 4, id |-> "docB_chunk_0", document_id |-> "docB", page |-> 1, text |-> TextOther] }

CatalogKeys == {r.key : r \in Catalog}

\* Distances (cosine distance in tenths) of the records to a query embedding.
DistTables ==
    { [k \in CatalogKeys |-> CASE k = 1 -> 1 [] k = 2 -> 2 [] k = 3 -> 15 [] OTHER -> 3],
      [k \in CatalogKeys |-> CASE k = 1 -> 16 [] k = 2 -> 4 [] k = 3 -> 4 [] OTHER -> 1],
      [k \in CatalogKeys |-> CASE k = 1 -> 18 [] k = 2 -> 17 [] k = 3 -> 16 [] OTHER -> 2] }

NoWhere == [kind |-> "none", value |-> ""]
WhereDocument(d) == [kind |-> "document_id", value |-> d]
WherePage(p) == [kind |-> "page", value |-> p]

\* ChromaDB's metadata filter
Matches(rec, where) ==
    CASE where.kind = "none" -> TRUE
      [] where.kind = "document_id" -> rec.document_id = where.value
      [] where.kind = "page" -> rec.page = where.value

RECURSIVE SortByDistance(_, _)
SortByDistance(S, dist) ==
    IF S = {} THEN <<>>
    ELSE LET r == CHOOSE x \in S : \A o \in S :
                      \/ dist[x.key] < dist[o.key]
                      \/ (dist[x.key] = dist[o.key] /\ x.key <= o.key)
         IN  <<r>> \o SortByDistance(S \ {r}, dist)

\* The dictionary of result lists ([[...]] nesting left out).
ResultsOf(hits, dist) ==
    [ids |-> [i \in 1..Len(hits) |-> hits[i].id],
     documents |-> [i \in 1..Len(hits) |-> hits[i].text],
     distances |-> [i \in 1..Len(hits) |-> dist[hits[i].key]],
     metadatas |-> [i \in 1..Len(hits) |->
                      [document_id |-> hits[i].document_id, page |-> hits[i].page]]]

\* {"ids": [[]], "documents": [[]], "distances": [[]], "metadatas": [[]]}
EmptyResults == [ids |-> <<>>, documents |-> <<>>, distances |-> <<>>, metadatas |-> <<>>]

\* self.collection.query(query_embeddings, n_results, where) when it succeeds:
\* the n nearest records that match the filter.
CollectionQuery(coll, dist, n, where) ==
    LET hits == SortByDistance({r \in coll : Matches(r, where)}, dist)
    IN  ResultsOf(SubSeq(hits, 1, IF n < Len(hits) THEN n ELSE Len(hits)), dist)

\* Index (1-based) of the first occurrence of sub in s, 0 when absent
FindSub(s, sub) ==
    LET at == {i \in 1..(Len(s) - Len(sub) + 1) : SubSeq(s, i, i + Len(sub) - 1) = sub}
    IN  IF at = {} THEN 0 ELSE Min(at)

\* str(result_id).split('_chunk_')[0]
IdPrefix(id) == SubSeq(id, 1, FindSub(id, "_chunk_") - 1)

\* The document id _post_filter_by_document_id reads off result idx.
ResultDocId(results, idx) ==
    LET meta_doc == IF idx <= Len(results.metadatas)
                    THEN results.metadatas[idx].document_id ELSE ""
    IN  IF meta_doc = "" /\ Contains(results.ids[idx], "_chunk_")
        THEN IdPrefix(results.ids[idx])
        ELSE meta_doc

RECURSIVE KeepMatching(_, _, _, _, _)
\* The indexes the filter loop keeps: those whose document id matches, in
\* order, until n_results are kept.
KeepMatching(results, document_id, n_results, idx, kept) ==
    IF idx > Len(results.ids) \/ Len(kept) >= n_results THEN kept
    ELSE IF ResultDocId(results, idx) = document_id
    THEN KeepMatching(results, document_id, n_results, idx + 1, Append(kept, idx))
    ELSE KeepMatching(results, document_id, n_results, idx + 1, kept)

Pick(list, idxs) ==
    LET in_range == SelectSeq(idxs, LAMBDA i : i <= Len(list))
    IN  [j \in 1..Len(in_range) |-> list[in_range[j]]]

\* VectorDB._post_filter_by_document_id
PostFilterByDocumentId(results, document_id, n_results) ==
    LET kept == KeepMatching(results, document_id, n_results, 1, <<>>)
    IN  [ids |-> Pick(results.ids, kept),
         documents |-> Pick(results.documents, kept),
         distances |-> Pick(results.distances, kept),
         metadatas |-> Pick(results.metadatas, kept)]

-----------------------------------------------------------------------------
(* VectorDB.search_similar *)

SearchMaxRetries == 3

\* Largest n_results a caller passes
MaxNResults == 3

SearchWheres == {NoWhere, WhereDocument("docA"), WhereDocument("docB"), WherePage(2)}

\* retry_delay = 0.5 seconds, in tenths of a second
RetryDelay == 5

\* Messages of the exceptions self.collection.query raises.
SearchErrors ==
    { "Error finding id",
      "Internal error: index unavailable",
      "Cannot return the results in a contigious 2D array. Probably ef or M is too small",
      "RuntimeError: ef or M is too small",
      "Connection reset by peer" }

\* The branch of the except block an exception takes; the message is
\* lower-cased before the substrings are looked for.
SearchErrorBranch(message) ==
    LET error_str == Lower(message)
    IN  IF Contains(error_str, "error finding id") \/ Contains(error_str, "internal error")
        THEN "error_finding_id"
        ELSE IF Contains(error_str, "ef or M is too small") \/ Contains(error_str, "contigious")
        THEN "too_small"
        ELSE "other"

\* post_filter_document_id ("" for None), and the rebinding of where and
\* query_n_results in post-filter mode
PostFilterDocumentId(where) == IF where.kind = "document_id" THEN where.value ELSE ""
EffectiveWhere(where) == IF where.kind = "document_id" THEN NoWhere ELSE where
QueryNResults(where, n_results) ==
    IF where.kind = "document_id" THEN Min({n_results * 3, 50}) ELSE n_results

\* wait_time = retry_delay * (2 ** attempt)
WaitTime(a) == RetryDelay * (2 ^ a)

QueryCall(kind, n, where, outcome) ==
    [kind |-> kind, n |-> n, where |-> where, outcome |-> outcome]

SearchReturn(results) ==
    /\ ss_pc' = "returned"
    /\ ss_result' = results

\* `continue`: the next iteration, or the return after the loop (line 431)
SearchContinue ==
    /\ ss_attempt' = ss_attempt + 1
    /\ IF ss_attempt + 1 < SearchMaxRetries
       THEN ss_pc' = "attempting" /\ ss_result' = ss_result
       ELSE SearchReturn(EmptyResults)

\* Entry of search_similar
SearchStart ==
    /\ ss_pc = "idle"
    /\ \E w \in SearchWheres : ss_where' = w
    /\ \E n \in 1..MaxNResults : ss_n' = n
    /\ \E d \in DistTables : ss_dist' = d
    /\ ss_pc' = "attempting"
    /\ ss_attempt' = 0
    /\ ss_queries' = <<>>
    /\ ss_sleeps' = <<>>
    /\ ss_result' = EmptyResults
    /\ UNCHANGED collection
    /\ UNCHANGED nonSearch

\* The query of an attempt succeeds (lines 265-304).
SearchQueryOk ==
    /\ ss_pc = "attempting"
    /\ LET where == EffectiveWhere(ss_where)
           query_n_results == QueryNResults(ss_where, ss_n)
           results == CollectionQuery(collection, ss_dist, query_n_results, where)
       IN  /\ ss_queries' = Append(ss_queries, QueryCall("main", query_n_results, where, "ok"))
           /\ IF PostFilterDocumentId(ss_where) # ""
              THEN SearchReturn(PostFilterByDocumentId(results, PostFilterDocumentId(ss_where), ss_n))
              ELSE SearchReturn(results)
    /\ UNCHANGED <<collection, ss_where, ss_n, ss_dist, ss_attempt, ss_sleeps>>
    /\ UNCHANGED nonSearch

\* The query of an attempt raises "Error finding id" / "internal error"
\* (lines 318-386); `extra` is the outcome of the query without filter, when
\* one is made.
SearchErrorFindingId ==
    /\ ss_pc = "attempting"
    /\ \E e \in SearchErrors, extra \in {"ok"} \cup SearchErrors :
        /\ SearchErrorBranch(e) = "error_finding_id"
        /\ LET where == EffectiveWhere(ss_where)
               main == QueryCall("main", QueryNResults(ss_where, ss_n), where, e)
               unfiltered == QueryCall("unfiltered", ss_n, NoWhere, extra)
           IN  IF ss_attempt < SearchMaxRetries - 1
               THEN /\ ss_sleeps' = Append(ss_sleeps, WaitTime(ss_attempt))
                    /\ IF ss_attempt = 1 /\ where # NoWhere
                       THEN /\ ss_queries' = ss_queries \o <<main, unfiltered>>
                            /\ IF extra = "ok"
                               THEN /\ SearchReturn(CollectionQuery(collection, ss_dist, ss_n, NoWhere))
                                    /\ UNCHANGED ss_attempt
                               ELSE SearchContinue
                       ELSE /\ extra = "ok"
                            /\ ss_queries' = Append(ss_queries, main)
                            /\ SearchContinue
               ELSE /\ UNCHANGED <<ss_sleeps, ss_attempt>>
                    /\ IF where # NoWhere
                       THEN /\ ss_queries' = ss_queries \o <<main, unfiltered>>
                            /\ IF extra = "ok"
                               THEN SearchReturn(CollectionQuery(collection, ss_dist, ss_n, NoWhere))
                               ELSE SearchReturn(EmptyResults)
                       ELSE /\ extra = "ok"
                            /\ ss_queries' = Append(ss_queries, main)
                            /\ SearchReturn(EmptyResults)
    /\ UNCHANGED <<collection, ss_where, ss_n, ss_dist>>
    /\ UNCHANGED nonSearch

\* The query of an attempt raises the hnswlib "contigious 2D array" error
\* (lines 389-416); `retry` and `extra` are the outcomes of the query with
\* fewer results and of the one without filter after it.
SearchErrorTooSmall ==
    /\ ss_pc = "attempting"
    /\ \E e \in SearchErrors, retry \in {"ok"} \cup SearchErrors, extra \in {"ok"} \cup SearchErrors :
        /\ SearchErrorBranch(e) = "too_small"
        /\ LET where == EffectiveWhere(ss_where)
               reduced_n == Max({1, ss_n \div 2})
               main == QueryCall("main", QueryNResults(ss_where, ss_n), where, e)
               reduced == QueryCall("reduced", reduced_n, where, retry)
               unfiltered == QueryCall("unfiltered", reduced_n, NoWhere, extra)
           IN  IF retry = "ok"
               THEN /\ extra = "ok"
                    /\ ss_queries' = ss_queries \o <<main, reduced>>
                    /\ SearchReturn(CollectionQuery(collection, ss_dist, reduced_n, where))
               ELSE IF where # NoWhere
               THEN /\ ss_queries' = ss_queries \o <<main, reduced, unfiltered>>
                    /\ IF extra = "ok"
                       THEN SearchReturn(CollectionQuery(collection, ss_dist, reduced_n, NoWhere))
                       ELSE SearchReturn(EmptyResults)
               ELSE /\ extra = "ok"
                    /\ ss_queries' = ss_queries \o <<main, reduced>>
                    /\ SearchReturn(EmptyResults)
    /\ UNCHANGED <<collection, ss_where, ss_n, ss_dist, ss_attempt, ss_sleeps>>
    /\ UNCHANGED nonSearch

\* What the last attempt does with an error of no special kind (line 428).
SearchGiveUp_Raise ==
    /\ ss_pc' = "raised"
    /\ ss_result' = ss_result
SearchGiveUp == SearchReturn(EmptyResults)

\* The query of an attempt raises any other error (lines 419-428).
SearchErrorOther ==
    /\ ss_pc = "attempting"
    /\ \E e \in SearchErrors :
        /\ SearchErrorBranch(e) = "other"
        /\ ss_queries' = Append(ss_queries,
               QueryCall("main", QueryNResults(ss_where, ss_n), EffectiveWhere(ss_where), e))
        /\ IF ss_attempt < SearchMaxRetries - 1
           THEN /\ ss_sleeps' = Append(ss_sleeps, WaitTime(ss_attempt))
                /\ SearchContinue
           ELSE /\ SearchGiveUp
                /\ UNCHANGED <<ss_sleeps, ss_attempt>>
    /\ UNCHANGED <<collection, ss_where, ss_n, ss_dist>>
    /\ UNCHANGED nonSearch

SearchIdle ==
    /\ collection = Catalog
    /\ ss_pc = "idle"
    /\ ss_where = NoWhere
    /\ ss_n = 1
    /\ ss_dist = [k \in CatalogKeys |-> 0]
    /\ ss_attempt = 0
    /\ ss_queries = <<>>
    /\ ss_sleeps = <<>>
    /\ ss_result = EmptyResults

SearchNext ==
    \/ SearchStart
    \/ SearchQueryOk
    \/ SearchErrorFindingId
    \/ SearchErrorTooSmall
    \/ SearchErrorOther

\* Every dictionary a search_similar call can return for the given arguments:
\* the (post-filtered) result of a main query, the result of the query with
\* fewer results, the results of the queries without filter, or the empty one.
SearchSimilarReturns(coll, dist, n_results, where) ==
    LET eff == EffectiveWhere(where)
        reduced_n == Max({1, n_results \div 2})
        main == CollectionQuery(coll, dist, QueryNResults(where, n_results), eff)
    IN  { IF PostFilterDocumentId(where) # ""
          THEN PostFilterByDocumentId(main, PostFilterDocumentId(where), n_results)
          ELSE main,
          CollectionQuery(coll, dist, reduced_n, eff),
          EmptyResults }
        \cup (IF eff # NoWhere
              THEN { CollectionQuery(coll, dist, n_results, NoWhere),
                     CollectionQuery(coll, dist, reduced_n, NoWhere) }
              ELSE {})

-----------------------------------------------------------------------------
(* GapDetector: retrieval *)

\* max_distance=1.5, in tenths
MaxDistance == 15

\* n_chunks: int = 20
DefaultNChunks == 20

\* The distance given to a chunk that has none: max_distance + 1.0
MissingDistance_Zero(max_distance) == 0
MissingDistance(max_distance) == max_distance + 10

DistanceAt(results, idx, max_distance) ==
    IF idx <= Len(results.distances) THEN results.distances[idx]
    ELSE MissingDistance(max_distance)

\* Indexes of the documents the filter loop keeps
KeptIndexes(results, max_distance) ==
    SelectSeq([i \in 1..Len(results.documents) |-> i],
              LAMBDA i : /\ Strip(results.documents[i]) # ""
                         /\ DistanceAt(results, i, max_distance) <= max_distance)

\* GapDetector._filter_results_by_distance
FilterResultsByDistance(results, max_distance) ==
    LET kept == KeptIndexes(results, max_distance)
    IN  [chunks |-> [j \in 1..Len(kept) |-> results.documents[kept[j]]],
         distances |-> [j \in 1..Len(kept) |-> DistanceAt(results, kept[j], max_distance)],
         pages |-> [j \in 1..Len(kept) |->
                      IF kept[j] <= Len(results.metadatas)
                      THEN results.metadatas[kept[j]].page ELSE 0]]

RECURSIVE Join(_, _)
\* sep.join(parts)
Join(parts, sep) ==
    IF parts = <<>> THEN ""
    ELSE IF Len(parts) = 1 THEN parts[1]
    ELSE parts[1] \o sep \o Join(Tail(parts), sep)

RECURSIVE AddUnseen(_, _)
\* `if chunk not in seen_chunks: all_chunks.append(chunk)` over the chunks
AddUnseen(all, chunks) ==
    IF chunks = <<>> THEN all
    ELSE IF \E i \in 1..Len(all) : all[i] = Head(chunks)
    THEN AddUnseen(all, Tail(chunks))
    ELSE AddUnseen(Append(all, Head(chunks)), Tail(chunks))

NoCourseInfo == [given |-> FALSE, course_code |-> "", institution |-> "", course_name |-> ""]

CourseInfos ==
    { NoCourseInfo,
      [given |-> TRUE, course_code |-> "CS101", institution |-> "MIT", course_name |-> ""],
      [given |-> TRUE, course_code |-> "", institution |-> "MIT",
       course_name |-> "Numerical Methods"] }

\* The (query_type) entries of course_queries, lines 1295-1320
CourseQueries(course_info, document_len) ==
    LET course_parts == <<course_info.course_code, course_info.institution>>
                        \o (IF course_info.course_name # ""
                            THEN <<course_info.course_name>> ELSE <<>>)
        basic_query == Join(SelectSeq(course_parts, LAMBDA part : part # ""), " ")
    IN  (IF Strip(basic_query) # "" THEN <<"basic">> ELSE <<>>)
        \o (IF course_info.course_code # "" /\ course_info.institution # ""
            THEN <<"institution">> ELSE <<>>)
        \o (IF course_info.course_name # "" /\ course_info.institution # ""
            THEN <<"semantic">> ELSE <<>>)
        \o (IF document_len > 100 /\ course_info.course_code # ""
            THEN <<"combined">> ELSE <<>>)

Probe(name, n_results, concept, skip) ==
    [name |-> name, n_results |-> n_results, concept |-> concept, skip |-> skip]

\* The searches _retrieve_rag_context makes for a document of the given length
RetrieveProbes(document_len, course_info, n_chunks) ==
    LET course_queries == CourseQueries(course_info, document_len)
        n_course == Max({3, n_chunks \div (Len(course_queries) + 1)})
    IN  << Probe("strategy_1", n_chunks \div 3, "", FALSE),
           Probe("strategy_2", n_chunks \div 3, "", FALSE) >>
        \o (IF document_len > 1000
            THEN <<Probe("strategy_3", n_chunks \div 4, "", FALSE)>> ELSE <<>>)
        \o (IF course_info.given
            THEN [i \in 1..Len(course_queries) |-> Probe(course_queries[i], n_course, "", FALSE)]
            ELSE <<>>)

\* relevance_score = 1.0 / (1.0 + distance), as a fraction (distance in tenths)
ScoreOf(distance) == [num |-> 10, den |-> 10 + distance]
ScoreGreater(a, b) == a.num * b.den > b.num * a.den

Normalized(chunk) == Lower(Strip(chunk))

RECURSIVE MergeChunks(_, _, _, _)
\* Lines 1650-1672: a chunk not seen before is appended; a seen one raises the
\* score of the chunk already kept.
MergeChunks(all, filtered, concept, idx) ==
    IF idx > Len(filtered.chunks) THEN all
    ELSE LET chunk == filtered.chunks[idx]
             relevance_score == ScoreOf(filtered.distances[idx])
             same == {i \in 1..Len(all) : Normalized(all[i].text) = Normalized(chunk)}
         IN  IF same = {}
             THEN MergeChunks(Append(all, [text |-> chunk, concept |-> concept,
                                           score |-> relevance_score]),
                              filtered, concept, idx + 1)
             ELSE IF ScoreGreater(relevance_score, all[Min(same)].score)
             THEN MergeChunks([all EXCEPT ![Min(same)].score = relevance_score,
                                          ![Min(same)].concept = concept],
                              filtered, concept, idx + 1)
             ELSE MergeChunks(all, filtered, concept, idx + 1)

RECURSIVE SortByScore(_)
\* all_chunks.sort(key=score, reverse=True): stable, highest score first
SortByScore(chunks) ==
    IF chunks = <<>> THEN <<>>
    ELSE LET sorted == SortByScore(SubSeq(chunks, 1, Len(chunks) - 1))
             c == chunks[Len(chunks)]
             k == Cardinality({i \in 1..Len(sorted) : ~ScoreGreater(c.score, sorted[i].score)})
         IN  SubSeq(sorted, 1, k) \o <<c>> \o SubSeq(sorted, k + 1, Len(sorted))

\* The part of a chunk that does not fit which is appended all the same
\* (lines 1688-1694), "" when none is.
PartialChunk(chunk_text, remaining_space) ==
    LET truncated == Prefix(chunk_text, remaining_space)
        last_period == RFind(truncated, ".")
    IN  IF remaining_space > 200 /\ last_period * 10 > remaining_space * 7
        THEN Prefix(truncated, last_period + 1)
        ELSE ""

RECURSIVE BuildContext(_, _, _, _)
\* The loop that fills context_parts within max_total_chars, lines 1681-1698
BuildContext(chunks, max_total_chars, parts, total_chars) ==
    IF chunks = <<>> THEN parts
    ELSE LET chunk_text == Head(chunks).text
             chunk_length == Len(chunk_text)
         IN  IF total_chars + chunk_length > max_total_chars
             THEN LET partial == PartialChunk(chunk_text, max_total_chars - total_chars)
                  IN  IF partial # "" THEN Append(parts, partial) ELSE parts
             ELSE BuildContext(Tail(chunks), max_total_chars,
                               Append(parts, chunk_text), total_chars + chunk_length)

Documents == {"docA", "docB"}
DocumentLengths == {80, 1500}
ConceptLists == { <<>>, <<"Power Method">>, <<"Power Method", "  ", "Eigenvalues">> }
Budgets == {260, 550, 600, 15000}

GapIn(concept, category) ==
    [concept |-> concept, category |-> category, explanation |-> "Used in question 1",
     whyNeeded |-> "Needed to solve it", rag_context |-> "", page_references |-> <<>>]

Gap(concept) == GapIn(concept, "critical")

\* Gap lists as the parser hands them over; "" stands for a missing
\* rag_context, <<>> for missing page_references.
GapLists == { <<Gap("Power Method")>>, <<Gap("Power Method"), Gap(""), Gap("Eigenvalues")>> }

StrValue(text) == [type |-> "str", text |-> text]
EmptyListValue == [type |-> "list", text |-> ""]

\* The dictionaries a probe's search_similar call can hand back, the index
\* giving the distances or not.
ProbeResults(n_results) ==
    UNION { {r, [r EXCEPT !.distances = <<>>]} :
            r \in UNION { SearchSimilarReturns(collection, d, n_results,
                                               WhereDocument(rag_document_id)) :
                          d \in DistTables } }

\* Texts of a result that came with a distance of at most 1.5
WithinThreshold(results) ==
    { results.documents[i] :
        i \in {j \in 1..Len(results.documents) :
                 j <= Len(results.distances) /\ results.distances[j] <= 15} }

\* Why chunks of a result are not within the threshold
DroppedFor(results) ==
    (IF Len(results.distances) < Len(results.documents) THEN {"no_distance"} ELSE {})
    \cup (IF \E j \in 1..Len(results.distances) : results.distances[j] > 15
          THEN {"above_threshold"} ELSE {})

RagStart(op, document_id, input, todo) ==
    /\ rag_pc = "idle"
    /\ rag_pc' = "probing"
    /\ rag_op' = op
    /\ rag_document_id' = document_id
    /\ rag_input' = input
    /\ rag_todo' = todo
    /\ rag_log' = <<>>
    /\ all_chunks' = <<>>
    /\ context_parts' = <<>>
    /\ rag_output' = StrValue("")
    /\ rag_within' = {}
    /\ rag_dropped' = {}
    /\ enhanced_gaps' = <<>>
    /\ UNCHANGED collection
    /\ UNCHANGED nonRag

\* Entry of _retrieve_rag_context
RetrieveRagContextStart ==
    \E d \in Documents, len \in DocumentLengths, ci \in CourseInfos :
        /\ RagStart("_retrieve_rag_context", d, <<>>,
                    RetrieveProbes(len, ci, DefaultNChunks))
        /\ UNCHANGED rag_max_total_chars

\* Entry of get_context_for_gap (n_results = 3)
GetContextForGapStart ==
    \E d \in Documents :
        /\ RagStart("get_context_for_gap", d, <<>>,
                    <<Probe("gap", 3, "Power Method", FALSE)>>)
        /\ UNCHANGED rag_max_total_chars

\* get_context_for_gaps with an empty gap_concepts: "" is returned at once
GetContextForGapsEmpty ==
    /\ rag_pc = "idle"
    /\ \E d \in Documents, budget \in Budgets :
        /\ rag_document_id' = d
        /\ rag_max_total_chars' = budget
    /\ rag_pc' = "returned"
    /\ rag_op' = "get_context_for_gaps"
    /\ rag_input' = <<>>
    /\ rag_todo' = <<>>
    /\ rag_log' = <<>>
    /\ all_chunks' = <<>>
    /\ context_parts' = <<>>
    /\ rag_output' = StrValue("")
    /\ rag_within' = {}
    /\ rag_dropped' = {}
    /\ enhanced_gaps' = <<>>
    /\ UNCHANGED collection
    /\ UNCHANGED nonRag

\* Entry of get_context_for_gaps (n_results_per_concept = 5); blank concepts
\* are passed over.
GetContextForGapsStart ==
    \E d \in Documents, concepts \in ConceptLists \ {<<>>}, budget \in Budgets :
        /\ RagStart("get_context_for_gaps", d, concepts,
                    [i \in 1..Len(concepts) |->
                        Probe("concept", 5, concepts[i], Strip(concepts[i]) = "")])
        /\ rag_max_total_chars' = budget

\* Entry of _enhance_gaps_with_rag (n_results = 5); a gap without concept is
\* passed over.
EnhanceGapsStart ==
    \E d \in Documents, gaps \in GapLists :
        /\ RagStart("_enhance_gaps_with_rag", d, gaps,
                    [i \in 1..Len(gaps) |->
                        [name |-> "gap", n_results |-> 5, concept |-> gaps[i].concept,
                         skip |-> gaps[i].concept = "", gap |-> gaps[i]]])
        /\ UNCHANGED rag_max_total_chars

LogEntry(outcome) == [name |-> Head(rag_todo).name, outcome |-> outcome]

\* `continue` on a blank concept / a gap without concept
RagSkip ==
    /\ rag_pc = "probing"
    /\ rag_todo # <<>>
    /\ Head(rag_todo).skip
    /\ rag_todo' = Tail(rag_todo)
    /\ rag_log' = Append(rag_log, LogEntry("skipped"))
    /\ enhanced_gaps' = IF rag_op = "_enhance_gaps_with_rag"
                        THEN Append(enhanced_gaps, Head(rag_todo).gap)
                        ELSE enhanced_gaps
    /\ UNCHANGED <<rag_pc, rag_op, rag_document_id, rag_max_total_chars, rag_input,
                   all_chunks,
                   context_parts, rag_output, rag_within, rag_dropped, collection>>
    /\ UNCHANGED nonRag

\* What the except clause of a probe of _retrieve_rag_context does: log, go on.
ProbeFailed_Abort ==
    /\ rag_pc' = "raised"
    /\ rag_todo' = rag_todo
ProbeFailed ==
    /\ rag_pc' = "probing"
    /\ rag_todo' = Tail(rag_todo)

\* The embedder or the search of a probe raises.
RagProbeFail ==
    /\ rag_pc = "probing"
    /\ rag_todo # <<>>
    /\ ~Head(rag_todo).skip
    /\ rag_log' = Append(rag_log, LogEntry("failed"))
    /\ CASE rag_op = "_retrieve_rag_context" ->
              /\ ProbeFailed
              /\ UNCHANGED <<rag_output, enhanced_gaps>>
         [] rag_op = "get_context_for_gap" ->
              /\ rag_pc' = "returned"
              /\ rag_todo' = Tail(rag_todo)
              /\ rag_output' = EmptyListValue
              /\ UNCHANGED enhanced_gaps
         [] rag_op = "get_context_for_gaps" ->
              /\ rag_todo' = Tail(rag_todo)
              /\ UNCHANGED <<rag_pc, rag_output, enhanced_gaps>>
         [] rag_op = "_enhance_gaps_with_rag" ->
              /\ rag_todo' = Tail(rag_todo)
              /\ enhanced_gaps' = Append(enhanced_gaps, Head(rag_todo).gap)
              /\ UNCHANGED <<rag_pc, rag_output>>
    /\ UNCHANGED <<rag_op, rag_document_id, rag_max_total_chars, rag_input, all_chunks,
                   context_parts, rag_within, rag_dropped, collection>>
    /\ UNCHANGED nonRag

\* sorted(set(relevant_pages[:2]))
UniquePages(pages) ==
    LET top == SubSeq(pages, 1, Min({2, Len(pages)}))
    IN  IF Len(top) = 2 /\ top[1] = top[2] THEN <<top[1]>>
        ELSE IF Len(top) = 2 /\ top[1] > top[2] THEN <<top[2], top[1]>>
        ELSE top

\* relevant_chunks[:2]
TopChunks(chunks) == SubSeq(chunks, 1, Min({2, Len(chunks)}))

\* The gap with the context of every chunk that was kept
EnhancedGap_AllChunks(gap, filtered) ==
    [gap EXCEPT !.rag_context = Join(filtered.chunks, "\n\n"),
                !.page_references = UniquePages(filtered.pages)]

\* Lines 1413-1419: the gap with rag_context and page_references
EnhancedGap(gap, filtered) ==
    [gap EXCEPT !.rag_context = Join(TopChunks(filtered.chunks), "\n\n"),
                !.page_references = UniquePages(filtered.pages)]

\* The search of a probe returns; its results are filtered by distance and
\* taken into the running lists.
RagProbeOk ==
    /\ rag_pc = "probing"
    /\ rag_todo # <<>>
    /\ ~Head(rag_todo).skip
    /\ \E results \in ProbeResults(Head(rag_todo).n_results) :
        LET filtered == FilterResultsByDistance(results, MaxDistance)
            top == TopChunks(filtered.chunks)
        IN  /\ rag_log' = Append(rag_log, LogEntry("ok"))
            /\ rag_within' = rag_within \cup WithinThreshold(results)
            /\ rag_dropped' = rag_dropped \cup DroppedFor(results)
            /\ rag_todo' = Tail(rag_todo)
            /\ CASE rag_op = "_retrieve_rag_context" ->
                      /\ all_chunks' = AddUnseen(all_chunks, filtered.chunks)
                      /\ UNCHANGED <<context_parts, enhanced_gaps>>
                 [] rag_op = "get_context_for_gap" ->
                      /\ all_chunks' = filtered.chunks
                      /\ UNCHANGED <<context_parts, enhanced_gaps>>
                 [] rag_op = "get_context_for_gaps" ->
                      /\ all_chunks' = MergeChunks(all_chunks, filtered,
                                                   Head(rag_todo).concept, 1)
                      /\ UNCHANGED <<context_parts, enhanced_gaps>>
                 [] rag_op = "_enhance_gaps_with_rag" ->
                      /\ context_parts' = context_parts \o top
                      /\ enhanced_gaps' = Append(enhanced_gaps,
                            EnhancedGap(Head(rag_todo).gap, filtered))
                      /\ UNCHANGED all_chunks
    /\ UNCHANGED <<rag_pc, rag_op, rag_document_id, rag_max_total_chars, rag_input, rag_output,
                   collection>>
    /\ UNCHANGED nonRag

\* After the last probe: the output is put together and returned.
RagFinish ==
    /\ rag_pc = "probing"
    /\ rag_todo = <<>>
    /\ rag_pc' = "returned"
    /\ context_parts' =
         CASE rag_op = "_retrieve_rag_context" -> Prefix(all_chunks, DefaultNChunks)
           [] rag_op = "get_context_for_gap" -> all_chunks
           [] rag_op = "get_context_for_gaps" ->
                BuildContext(SortByScore(all_chunks), rag_max_total_chars, <<>>, 0)
           [] rag_op = "_enhance_gaps_with_rag" -> context_parts
    /\ rag_output' = IF rag_op = "_enhance_gaps_with_rag" THEN rag_output
                     ELSE StrValue(Join(context_parts', "\n\n"))
    /\ UNCHANGED <<rag_op, rag_document_id, rag_max_total_chars, rag_input, rag_todo, rag_log,
                   all_chunks, rag_within, rag_dropped, enhanced_gaps, collection>>
    /\ UNCHANGED nonRag

RagIdle ==
    /\ rag_pc = "idle"
    /\ rag_op = "none"
    /\ rag_document_id = "docA"
    /\ rag_max_total_chars = 15000
    /\ rag_input = <<>>
    /\ rag_todo = <<>>
    /\ rag_log = <<>>
    /\ all_chunks = <<>>
    /\ context_parts = <<>>
    /\ rag_output = StrValue("")
    /\ rag_within = {}
    /\ rag_dropped = {}
    /\ enhanced_gaps = <<>>

RagNext ==
    \/ RetrieveRagContextStart
    \/ GetContextForGapStart
    \/ GetContextForGapsEmpty
    \/ GetContextForGapsStart
    \/ EnhanceGapsStart
    \/ RagSkip
    \/ RagProbeFail
    \/ RagProbeOk
    \/ RagFinish

-----------------------------------------------------------------------------
(* GapDetector.detect_gaps *)

\* PDFParser.chunk_text for a text shorter than chunk_size - overlap: the
\* stripped text as one chunk, none when it is blank.
ChunkTextShort(text) == IF Strip(text) = "" THEN <<>> ELSE <<Strip(text)>>

\* Documents handed to detect_gaps: one already stored, one with an
\* assignment, one without chunks, one without text, one with blank text,
\* one without extraction (text "" stands for no text to read).
\* assignment_context is what _extract_assignment_context finds in the text
\* ("" for None).
DetectDocuments ==
    { [id |-> "docA", text |-> "Lecture notes on eigenvalues.",
       chunks |-> <<TextSentence, TextSentenceMore, TextShort>>, pages |-> <<1, 2, 2>>,
       assignment_context |-> "", extraction |-> TRUE],
      [id |-> "docC", text |-> "Problem 1: apply the Power Method to the matrix.",
       chunks |-> <<"Problem 1: apply the Power Method to the matrix.">>, pages |-> <<1>>,
       assignment_context |-> "apply the Power Method to the matrix.", extraction |-> TRUE],
      [id |-> "docD", text |-> " Notes without chunks. ", chunks |-> <<>>, pages |-> <<>>,
       assignment_context |-> "", extraction |-> TRUE],
      [id |-> "docE", text |-> "", chunks |-> <<>>, pages |-> <<>>,
       assignment_context |-> "", extraction |-> TRUE],
      [id |-> "docF", text |-> "  ", chunks |-> <<>>, pages |-> <<>>,
       assignment_context |-> "", extraction |-> TRUE],
      [id |-> "docG", text |-> "", chunks |-> <<>>, pages |-> <<>>,
       assignment_context |-> "", extraction |-> FALSE] }

\* Values _retrieve_rag_context hands back
RagContexts == {"", TextShort, TextSentence \o "\n\n" \o TextShort}

\* What the parsing passes make of an analysis
ParsedGapLists ==
    { <<>>,
      <<GapIn("Eigenvalues", "safe")>>,
      <<GapIn("Power Method", "critical"), GapIn("Eigenvalues", "safe")>> }

\* f"{document.id}_chunk_{i}"
ChunkId(document_id, i) ==
    document_id \o "_chunk_" \o
        (CASE i = 0 -> "0" [] i = 1 -> "1" [] i = 2 -> "2" [] OTHER -> "3")

\* VectorDB.add_documents when the add goes through: records whose id the
\* collection does not hold yet are added.
AddDocuments(coll, document_id, chunks) ==
    LET existing_ids == {r.id : r \in coll}
        top == IF coll = {} THEN 0 ELSE Max({r.key : r \in coll})
    IN  coll \cup
        { [key |-> top + i, id |-> ChunkId(document_id, i - 1), document_id |-> document_id,
           page |-> chunks[i].page, text |-> chunks[i].text] :
          i \in {j \in 1..Len(chunks) : ChunkId(document_id, j - 1) \notin existing_ids} }

Emit(stage) == dg_events' = Append(dg_events, stage)
Emit2(before, after) == dg_events' = dg_events \o <<before, after>>

\* A call of a method of self.embedder, self.vector_db or self.llm_service
Calls(collaborators) == dg_calls' = dg_calls \cup collaborators

DetectRaise == dg_pc' = "raised"

\* Entry with a document that has text
DetectStart ==
    /\ dg_pc = "idle"
    /\ \E d \in DetectDocuments :
        /\ d.extraction /\ d.text # ""
        /\ dg_document' = d
    /\ dg_pc' = "embed"
    /\ UNCHANGED <<dg_events, dg_chunks, dg_rag_context, dg_analysis, dg_gaps, dg_calls,
                   collection>>
    /\ UNCHANGED nonDetect

\* The check of the text made after the first event
DetectNoText_AfterEmit ==
    /\ dg_pc = "idle"
    /\ \E d \in DetectDocuments :
        /\ ~d.extraction \/ d.text = ""
        /\ dg_document' = d
    /\ Emit("embeddings_generating")
    /\ DetectRaise
    /\ UNCHANGED <<dg_chunks, dg_rag_context, dg_analysis, dg_gaps, dg_calls, collection>>
    /\ UNCHANGED nonDetect

\* Entry with a document without extraction or without text: ValueError
\* before any event
DetectNoText ==
    /\ dg_pc = "idle"
    /\ \E d \in DetectDocuments :
        /\ ~d.extraction \/ d.text = ""
        /\ dg_document' = d
    /\ DetectRaise
    /\ UNCHANGED <<dg_events, dg_chunks, dg_rag_context, dg_analysis, dg_gaps, dg_calls,
                   collection>>
    /\ UNCHANGED nonDetect

\* Step 1: the chunks (made from the text when the document has none) are
\* embedded; the embedder may raise.
DetectEmbed ==
    /\ dg_pc = "embed"
    /\ LET texts == IF dg_document.chunks = <<>> THEN ChunkTextShort(dg_document.text)
                    ELSE dg_document.chunks
           chunks == [i \in 1..Len(texts) |->
                        [text |-> texts[i],
                         page |-> IF i <= Len(dg_document.pages)
                                  THEN dg_document.pages[i] ELSE 0]]
       IN  \E embedded \in BOOLEAN :
            IF embedded
            THEN /\ Emit2("embeddings_generating", "embeddings_generated")
                 /\ dg_chunks' = chunks
                 /\ dg_pc' = "store"
            ELSE /\ Emit("embeddings_generating")
                 /\ UNCHANGED dg_chunks
                 /\ DetectRaise
    /\ Calls({"embedder"})
    /\ UNCHANGED <<dg_document, dg_rag_context, dg_analysis, dg_gaps, collection>>
    /\ UNCHANGED nonDetect

\* Step 2: add_documents; ValueError on an empty list, or the add and the
\* upsert both fail.
DetectStore ==
    /\ dg_pc = "store"
    /\ \E stored \in BOOLEAN :
        IF stored /\ dg_chunks # <<>>
        THEN /\ Emit2("vector_db_storing", "vector_db_stored")
             /\ collection' = AddDocuments(collection, dg_document.id, dg_chunks)
             /\ dg_pc' = "retrieve"
        ELSE /\ Emit("vector_db_storing")
             /\ UNCHANGED collection
             /\ DetectRaise
    /\ Calls({"vector_db"})
    /\ UNCHANGED <<dg_document, dg_chunks, dg_rag_context, dg_analysis, dg_gaps>>
    /\ UNCHANGED nonDetect

\* Step 3: _retrieve_rag_context, which does not raise
DetectRetrieve ==
    /\ dg_pc = "retrieve"
    /\ Emit2("rag_retrieving", "rag_retrieved")
    /\ \E context \in RagContexts : dg_rag_context' = context
    /\ dg_pc' = "analyze"
    /\ Calls({"embedder", "vector_db"})
    /\ UNCHANGED <<dg_document, dg_chunks, dg_analysis, dg_gaps, collection>>
    /\ UNCHANGED nonDetect

\* Step 4: analyze_document_for_gaps returns the model's text or the
\* fallback analysis, or raises.
DetectAnalyze ==
    /\ dg_pc = "analyze"
    /\ \/ /\ Emit2("llm_analyzing", "llm_analyzed")
          /\ \E text \in LLMOutputs \cup {FallbackAnalysis("CS101")} : dg_analysis' = text
          /\ dg_pc' = "parse"
       \/ /\ Emit("llm_analyzing")
          /\ UNCHANGED dg_analysis
          /\ DetectRaise
    /\ Calls({"llm_service"})
    /\ UNCHANGED <<dg_document, dg_chunks, dg_rag_context, dg_gaps, collection>>
    /\ UNCHANGED nonDetect

\* Step 5: _parse_gaps_from_analysis
DetectParse ==
    /\ dg_pc = "parse"
    /\ Emit2("gaps_parsing", "gaps_parsed")
    /\ \E parsed \in ParsedGapLists : dg_gaps' = ParseGapsFromAnalysis(dg_analysis, parsed)
    /\ dg_pc' = "enhance"
    /\ Calls({})
    /\ UNCHANGED <<dg_document, dg_chunks, dg_rag_context, dg_analysis, collection>>
    /\ UNCHANGED nonDetect

\* Step 6: _enhance_gaps_with_rag: gaps with a concept get the context found
\* for them, if any.
DetectEnhance ==
    /\ dg_pc = "enhance"
    /\ Emit2("gaps_enhancing", "gaps_enhanced")
    /\ \E found \in {"", TextShort} :
        dg_gaps' = [i \in 1..Len(dg_gaps) |->
                      IF dg_gaps[i].concept # "" /\ found # ""
                      THEN [dg_gaps[i] EXCEPT !.rag_context = found, !.page_references = <<2>>]
                      ELSE dg_gaps[i]]
    /\ dg_pc' = "finish"
    /\ Calls(IF \E i \in 1..Len(dg_gaps) : dg_gaps[i].concept # ""
             THEN {"embedder", "vector_db"} ELSE {})
    /\ UNCHANGED <<dg_document, dg_chunks, dg_rag_context, dg_analysis, collection>>
    /\ UNCHANGED nonDetect

\* _force_critical_gaps: a critical gap for each concept not among the gaps
ForceCriticalGaps(gaps, concepts) ==
    gaps \o SelectSeq([i \in 1..Len(concepts) |-> GapIn(concepts[i], "critical")],
                      LAMBDA g : \A i \in 1..Len(gaps) :
                                     Lower(gaps[i].concept) # Lower(g.concept))

\* The events of steps 7 and 8
FinishEvents_CompletedFirst(force) ==
    <<"completed">> \o (IF force THEN <<"gaps_force_critical">> ELSE <<>>)
FinishEvents(force) ==
    (IF force THEN <<"gaps_force_critical">> ELSE <<>>) \o <<"completed">>

\* Steps 7 and 8 and the return; the concepts of the gaps here are specific,
\* so _ensure_specific_concepts leaves them as they are.
DetectFinish ==
    /\ dg_pc = "finish"
    /\ LET force == /\ dg_document.assignment_context # ""
                    /\ ~\E i \in 1..Len(dg_gaps) : dg_gaps[i].category = "critical"
       IN  /\ dg_events' = dg_events \o FinishEvents(force)
           /\ IF force
              THEN \E concepts \in {<<>>, <<"Power Method">>, <<"eigenvalues">>} :
                       dg_gaps' = ForceCriticalGaps(dg_gaps, concepts)
              ELSE UNCHANGED dg_gaps
    /\ dg_pc' = "returned"
    /\ Calls({})
    /\ UNCHANGED <<dg_document, dg_chunks, dg_rag_context, dg_analysis, collection>>
    /\ UNCHANGED nonDetect

DetectIdle ==
    /\ dg_pc = "idle"
    /\ dg_document \in {d \in DetectDocuments : d.id = "docA"}
    /\ dg_events = <<>>
    /\ dg_chunks = <<>>
    /\ dg_rag_context = ""
    /\ dg_analysis = ""
    /\ dg_gaps = <<>>
    /\ dg_calls = {}

DetectNext ==
    \/ DetectStart
    \/ DetectNoText
    \/ DetectEmbed
    \/ DetectStore
    \/ DetectRetrieve
    \/ DetectAnalyze
    \/ DetectParse
    \/ DetectEnhance
    \/ DetectFinish

-----------------------------------------------------------------------------
(* analyze_document_stream (api/analyze.py) *)

\* max_iterations of the polling loop
MaxIterations == 1000

\* The stages detect_gaps passes to its progress_callback when it returns
DetectStages ==
    << "embeddings_generating", "embeddings_generated", "vector_db_storing",
       "vector_db_stored", "rag_retrieving", "rag_retrieved", "llm_analyzing",
       "llm_analyzed", "gaps_parsing", "gaps_parsed", "gaps_enhancing",
       "gaps_enhanced", "completed" >>

\* What run_analysis goes through: the stages get_gaps_for_document reports
\* and how it ends ("gaps": a non-empty list, "no_gaps": an empty list,
\* "raise": an exception after the reported stages)
WorkerRuns ==
    { [stages |-> DetectStages, outcome |-> o] : o \in {"gaps", "no_gaps"} }
        \cup { [stages |-> SubSeq(DetectStages, 1, k), outcome |-> "raise"] :
                 k \in {0, 2, 6} }

\* progress_callback: progress_queue.put(event_data)
QueuePut(stage) ==
    /\ progress_queue' = Append(progress_queue, stage)
    /\ an_put' = Append(an_put, stage)

\* yield f"data: {json.dumps(event)}\n\n"
Yield(stage, queued) == an_sent' = Append(an_sent, [stage |-> stage, queued |-> queued])

\* event_generator up to analysis_thread.start(), the document found
StreamStart ==
    /\ an_pc = "idle"
    /\ \E run \in WorkerRuns :
           /\ an_script' = run.stages
           /\ an_outcome' = run.outcome
    /\ an_sent' = << [stage |-> "uploaded", queued |-> FALSE],
                     [stage |-> "extracted", queued |-> FALSE] >>
    /\ an_thread' = "running"
    /\ an_pc' = "loop"
    /\ UNCHANGED <<progress_queue, an_put, iteration, completed_event_received,
                   events_emitted, gaps_result, error_result>>
    /\ UNCHANGED nonStream

\* event_generator, documents_store.get(document_id) returning nothing
StreamNotFound ==
    /\ an_pc = "idle"
    /\ Yield("error", FALSE)
    /\ an_pc' = "done"
    /\ UNCHANGED <<an_thread, an_script, an_outcome, progress_queue, an_put,
                   iteration, completed_event_received, events_emitted,
                   gaps_result, error_result>>
    /\ UNCHANGED nonStream

\* filtered_progress_callback, called by detect_gaps in the worker thread
WorkerProgress ==
    /\ an_thread = "running"
    /\ an_script # <<>>
    /\ IF Head(an_script) = "completed"
       THEN UNCHANGED <<progress_queue, an_put>>
       ELSE QueuePut(Head(an_script))
    /\ an_script' = Tail(an_script)
    /\ UNCHANGED <<an_pc, an_thread, an_outcome, an_sent, iteration,
                   completed_event_received, events_emitted, gaps_result,
                   error_result>>
    /\ UNCHANGED nonStream

\* run_analysis: gaps_result[0] = gaps
WorkerSetResult ==
    /\ an_thread = "running"
    /\ an_script = <<>>
    /\ an_outcome # "raise"
    /\ gaps_result' = an_outcome
    /\ an_thread' = "got_gaps"
    /\ UNCHANGED <<an_pc, an_script, an_outcome, progress_queue, an_put, an_sent,
                   iteration, completed_event_received, events_emitted,
                   error_result>>
    /\ UNCHANGED nonStream

\* run_analysis: the error event for no gaps, else the completed event
WorkerPutFinal ==
    /\ an_thread = "got_gaps"
    /\ QueuePut(IF gaps_result = "no_gaps" THEN "error" ELSE "completed")
    /\ an_thread' = "exiting"
    /\ UNCHANGED <<an_pc, an_script, an_outcome, an_sent, iteration,
                   completed_event_received, events_emitted, gaps_result,
                   error_result>>
    /\ UNCHANGED nonStream

\* run_analysis: except Exception as e: error_result[0] = str(e)
WorkerRaise ==
    /\ an_thread = "running"
    /\ an_script = <<>>
    /\ an_outcome = "raise"
    /\ error_result' = "raised"
    /\ an_thread' = "exiting"
    /\ UNCHANGED <<an_pc, an_script, an_outcome, progress_queue, an_put, an_sent,
                   iteration, completed_event_received, events_emitted,
                   gaps_result>>
    /\ UNCHANGED nonStream

\* run_analysis returns: analysis_thread.is_alive() turns false
WorkerExit ==
    /\ an_thread = "exiting"
    /\ an_thread' = "dead"
    /\ UNCHANGED <<an_pc, an_script, an_outcome, progress_queue, an_put, an_sent,
                   iteration, completed_event_received, events_emitted,
                   gaps_result, error_result>>
    /\ UNCHANGED nonStream

\* while (analysis_thread.is_alive() or not progress_queue.empty())
\*       and iteration < max_iterations
StreamLoopTest ==
    /\ an_pc = "loop"
    /\ IF (an_thread # "dead" \/ progress_queue # <<>>) /\ iteration < MaxIterations
       THEN /\ iteration' = iteration + 1
            /\ events_emitted' = FALSE
            /\ an_pc' = "drain"
       ELSE /\ an_pc' = "join"
            /\ UNCHANGED <<iteration, events_emitted>>
    /\ UNCHANGED <<an_thread, an_script, an_outcome, progress_queue, an_put,
                   an_sent, completed_event_received, gaps_result, error_result>>
    /\ UNCHANGED nonStream

\* inside the loop: event = progress_queue.get_nowait(); yield
StreamGet ==
    /\ an_pc = "drain"
    /\ progress_queue # <<>>
    /\ Yield(Head(progress_queue), TRUE)
    /\ progress_queue' = Tail(progress_queue)
    /\ completed_event_received' =
           (completed_event_received \/ Head(progress_queue) = "completed")
    /\ events_emitted' = TRUE
    /\ UNCHANGED <<an_pc, an_thread, an_script, an_outcome, an_put, iteration,
                   gaps_result, error_result>>
    /\ UNCHANGED nonStream

\* inside the loop: queue.Empty, then the early break or the next round
\* (after asyncio.sleep(0.1) when nothing was emitted)
StreamQueueEmpty ==
    /\ an_pc = "drain"
    /\ progress_queue = <<>>
    /\ an_pc' = IF completed_event_received THEN "join" ELSE "loop"
    /\ UNCHANGED <<an_thread, an_script, an_outcome, progress_queue, an_put,
                   an_sent, iteration, completed_event_received, events_emitted,
                   gaps_result, error_result>>
    /\ UNCHANGED nonStream

\* analysis_thread.join(timeout=5.0): returns when the thread has ended or
\* when the five seconds have passed, whichever comes first
StreamJoin ==
    /\ an_pc = "join"
    /\ an_pc' = "final_drain"
    /\ UNCHANGED <<an_thread, an_script, an_outcome, progress_queue, an_put,
                   an_sent, iteration, completed_event_received, events_emitted,
                   gaps_result, error_result>>
    /\ UNCHANGED nonStream

\* after the join: event = progress_queue.get_nowait(); yield
StreamFinalGet ==
    /\ an_pc = "final_drain"
    /\ progress_queue # <<>>
    /\ Yield(Head(progress_queue), TRUE)
    /\ progress_queue' = Tail(progress_queue)
    /\ completed_event_received' =
           (completed_event_received \/ Head(progress_queue) = "completed")
    /\ UNCHANGED <<an_pc, an_thread, an_script, an_outcome, an_put, iteration,
                   events_emitted, gaps_result, error_result>>
    /\ UNCHANGED nonStream

\* after the join: queue.Empty, then the error, the failure or the fallback
\* completed event, and the generator ends
StreamFinish ==
    /\ an_pc = "final_drain"
    /\ progress_queue = <<>>
    /\ IF error_result # "none"
       THEN Yield("error", FALSE)
       ELSE IF gaps_result = "none"
            THEN Yield("error", FALSE)
            ELSE IF ~completed_event_received
                 THEN Yield("completed", FALSE)
                 ELSE UNCHANGED an_sent
    /\ an_pc' = "done"
    /\ UNCHANGED <<an_thread, an_script, an_outcome, progress_queue, an_put,
                   iteration, completed_event_received, events_emitted,
                   gaps_result, error_result>>
    /\ UNCHANGED nonStream

StreamIdle ==
    /\ an_pc = "idle"
    /\ an_thread = "not_started"
    /\ an_script = <<>>
    /\ an_outcome = "none"
    /\ progress_queue = <<>>
    /\ an_put = <<>>
    /\ an_sent = <<>>
    /\ iteration = 0
    /\ completed_event_received = FALSE
    /\ events_emitted = FALSE
    /\ gaps_result = "none"
    /\ error_result = "none"

StreamNext ==
    \/ StreamStart
    \/ StreamNotFound
    \/ WorkerProgress
    \/ WorkerSetResult
    \/ WorkerPutFinal
    \/ WorkerRaise
    \/ WorkerExit
    \/ StreamLoopTest
    \/ StreamGet
    \/ StreamQueueEmpty
    \/ StreamJoin
    \/ StreamFinalGet
    \/ StreamFinish

-----------------------------------------------------------------------------
(* Embedder (embedder.py) *)

\* The threads that call the one Embedder
EmbThreads == {"t1", "t2", "t3"}

\* Calls each thread makes
MaxCalls == 2

NoThread == "none"

\* The text argument of generate_embedding, or the only text of the batch of
\* generate_embeddings_batch
EmbTexts == {"", "  ", "Power Method"}

EmbSet(f, t, v) == [f EXCEPT ![t] = v]

embFrame == <<emb_model, emb_lock, emb_calls, emb_constructions, emb_encodes>>

\* generate_embedding / generate_embeddings_batch up to self._load_model():
\* a blank text raises ValueError, a batch without valid text returns []
EmbCall(t) ==
    /\ emb_pc[t] = "idle"
    /\ emb_calls[t] < MaxCalls
    /\ emb_calls' = EmbSet(emb_calls, t, emb_calls[t] + 1)
    /\ \E text \in EmbTexts :
           emb_pc' = EmbSet(emb_pc, t, IF Strip(text) = "" THEN "idle" ELSE "check")
    /\ emb_via' = EmbSet(emb_via, t, "none")
    /\ UNCHANGED <<emb_model, emb_lock, emb_constructions, emb_encodes>>
    /\ UNCHANGED nonEmbed

\* _load_model: the first `if self.model is None`, outside the lock
EmbCheck(t) ==
    /\ emb_pc[t] = "check"
    /\ emb_pc' = EmbSet(emb_pc, t, IF emb_model = "none" THEN "acquire" ELSE "encode")
    /\ emb_via' = EmbSet(emb_via, t, IF emb_model = "none" THEN "none" ELSE "fast")
    /\ UNCHANGED embFrame
    /\ UNCHANGED nonEmbed

\* _load_model: with self._model_lock
EmbAcquire(t) ==
    /\ emb_pc[t] = "acquire"
    /\ emb_lock = NoThread
    /\ emb_lock' = t
    /\ emb_pc' = EmbSet(emb_pc, t, "recheck")
    /\ UNCHANGED <<emb_via, emb_model, emb_calls, emb_constructions,
                   emb_encodes>>
    /\ UNCHANGED nonEmbed

\* The second check without its test: the holder of the lock always loads
Recheck_Always(model) == "construct"

\* _load_model: the second `if self.model is None`, inside the lock
Recheck(model) == IF model = "none" THEN "construct" ELSE "release"

EmbRecheck(t) ==
    /\ emb_pc[t] = "recheck"
    /\ emb_pc' = EmbSet(emb_pc, t, Recheck(emb_model))
    /\ emb_via' = EmbSet(emb_via, t, IF Recheck(emb_model) = "construct"
                                     THEN "loaded" ELSE "waited")
    /\ UNCHANGED embFrame
    /\ UNCHANGED nonEmbed

\* self.model = SentenceTransformer(...)
Construct(t) ==
    /\ emb_model' = "set"
    /\ emb_constructions' =
           emb_constructions \cup {[thread |-> t, call |-> emb_calls[t],
                                    nth |-> Cardinality(emb_constructions) + 1]}

\* _load_model: the chain of SentenceTransformer(...) calls. "plain": one of
\* the calls that end the load succeeds (lines 230, 241, 456, 462);
\* "workaround": a call followed by _fix_meta_tensors_recursive succeeds
\* (lines 343, 353, 398); "fail": every call tried raises
EmbConstruct(t) ==
    /\ emb_pc[t] = "construct"
    /\ \E outcome \in {"plain", "workaround", "fail"} :
           IF outcome = "fail"
           THEN /\ emb_pc' = EmbSet(emb_pc, t, "release_raise")
                /\ UNCHANGED <<emb_model, emb_constructions>>
           ELSE /\ Construct(t)
                /\ emb_pc' = EmbSet(emb_pc, t, IF outcome = "plain"
                                               THEN "release" ELSE "fix")
    /\ UNCHANGED <<emb_via, emb_lock, emb_calls, emb_encodes>>
    /\ UNCHANGED nonEmbed

\* _load_model: self._fix_meta_tensors_recursive(self.model, device='cpu')
\* after the model has been assigned. It returns, or it raises and the load
\* raises (lines 362, 421), or it raises at line 405 and the model is
\* constructed again under its short name (line 414)
EmbFix(t) ==
    /\ emb_pc[t] \in {"fix", "fix_again"}
    /\ \E outcome \in {"fixed", "raise", "short_name"} :
           CASE outcome = "fixed" ->
                    /\ emb_pc' = EmbSet(emb_pc, t, "release")
                    /\ UNCHANGED <<emb_model, emb_constructions>>
             [] outcome = "raise" ->
                    /\ emb_pc' = EmbSet(emb_pc, t, "release_raise")
                    /\ UNCHANGED <<emb_model, emb_constructions>>
             [] outcome = "short_name" ->
                    /\ emb_pc[t] = "fix"
                    /\ Construct(t)
                    /\ emb_pc' = EmbSet(emb_pc, t, "fix_again")
    /\ UNCHANGED <<emb_via, emb_lock, emb_calls, emb_encodes>>
    /\ UNCHANGED nonEmbed

\* _load_model: the end of the with block, by return or by exception
EmbRelease(t) ==
    /\ emb_pc[t] \in {"release", "release_raise"}
    /\ emb_lock' = NoThread
    /\ emb_pc' = EmbSet(emb_pc, t, IF emb_pc[t] = "release" THEN "encode" ELSE "idle")
    /\ UNCHANGED <<emb_via, emb_model, emb_calls, emb_constructions,
                   emb_encodes>>
    /\ UNCHANGED nonEmbed

\* self.model.encode(...)
EmbEncode(t) ==
    /\ emb_pc[t] = "encode"
    /\ emb_encodes' = emb_encodes \cup
                           {[thread |-> t, model |-> emb_model, via |-> emb_via[t]]}
    /\ emb_pc' = EmbSet(emb_pc, t, "idle")
    /\ UNCHANGED <<emb_via, emb_model, emb_lock, emb_calls,
                   emb_constructions>>
    /\ UNCHANGED nonEmbed

\* Embedder.__init__
EmbedIdle ==
    /\ emb_model = "none"
    /\ emb_lock = NoThread
    /\ emb_pc = [t \in EmbThreads |-> "idle"]
    /\ emb_via = [t \in EmbThreads |-> "none"]
    /\ emb_calls = [t \in EmbThreads |-> 0]
    /\ emb_constructions = {}
    /\ emb_encodes = {}

EmbedNext ==
    \E t \in EmbThreads :
        \/ EmbCall(t)
        \/ EmbCheck(t)
        \/ EmbAcquire(t)
        \/ EmbRecheck(t)
        \/ EmbConstruct(t)
        \/ EmbFix(t)
        \/ EmbRelease(t)
        \/ EmbEncode(t)

-----------------------------------------------------------------------------
(* PDFParser.chunk_text and chunk_text_with_pages (pdf_parser.py) *)

\* Longest text of the exhaustive inputs
MaxTextLen == 9

ChunkAlphabet == {"a", " "}

RECURSIVE StringsUpTo(_)
StringsUpTo(n) ==
    IF n = 0 THEN {""}
    ELSE LET shorter == StringsUpTo(n - 1)
         IN  shorter \cup { s \o c : s \in {x \in shorter : Len(x) = n - 1},
                                     c \in ChunkAlphabet }

\* Texts with the other separators of the list
SeparatorTexts ==
    { "aaaaa.aaa", "aaaa. aaa", "aaaaa\n\naa", "aaaaa\naaa", "aaaa! aaa",
      "aaaaa?aaa", "aaaa? aa", "aaaaa!aa", "\n\n \n\n", "a.a.a.a.a.a" }

ChunkTexts == StringsUpTo(MaxTextLen) \cup SeparatorTexts

\* Longest text of the exhaustive inputs of the runs checked for termination
MaxShortTextLen == 4

ShortChunkTexts == StringsUpTo(MaxShortTextLen) \cup SeparatorTexts

ChunkSizes == {1, 2, 7}

\* Overlaps below, equal to and above the chunk sizes
ChunkOverlaps == {0, 1, 7, 9}

\* The pages argument of chunk_text_with_pages
PageLists ==
    { <<>>,
      << [page_number |-> 1, text |-> "  "] >>,
      << [page_number |-> 1, text |-> TextSentence],
         [page_number |-> 2, text |-> "\n"],
         [page_number |-> 3, text |-> TextShort] >>,
      << [page_number |-> 1, text |-> Rep("a ", 60)],
         [page_number |-> 2, text |-> Rep("b", 130)] >> }

\* int(chunk_size * 0.7): the double product lies below the exact one for
\* these sizes
BelowSevenTenths ==
    {90, 170, 180, 330, 340, 350, 360, 650, 660, 670, 680, 690, 700, 710, 720, 730}

SevenTenths(n) == IF n \in BelowSevenTenths THEN (7 * n) \div 10 - 1 ELSE (7 * n) \div 10

\* int(chunk_size * 0.8)
EightTenths(n) == (8 * n) \div 10

\* s[a:b] for 0 <= a
PySlice(s, a, b) == SubSeq(s, a + 1, Min({b, Len(s)}))

\* s.rfind(sub, from) for from >= 0
RFindFrom(s, sub, from) ==
    LET found == { i \in from..(Len(s) - Len(sub)) : SubSeq(s, i + 1, i + Len(sub)) = sub }
    IN  IF found = {} THEN -1 ELSE Max(found)

Separators == << "\n\n", "\n", ". ", "! ", "? ", ".", "!", "?", " " >>

\* for separator in separators: ... best_break = break_pos + len(separator)
RECURSIVE BestBreak(_, _, _)
BestBreak(chunk, search_start, k) ==
    IF k > Len(Separators) THEN -1
    ELSE LET break_pos == RFindFrom(chunk, Separators[k], search_start)
         IN  IF break_pos > search_start
             THEN break_pos + Len(Separators[k])
             ELSE BestBreak(chunk, search_start, k + 1)

\* end of the window that starts at start, after the search for a break point
WindowEnd(text, start, chunk_size) ==
    LET end == start + chunk_size
        chunk == PySlice(text, start, end)
    IN  IF end < Len(text)
        THEN LET best_break == BestBreak(chunk, Max({0, SevenTenths(chunk_size)}), 1)
                 last_space == RFindFrom(chunk, " ", EightTenths(chunk_size))
             IN  IF best_break > 0 THEN start + best_break
                 ELSE IF last_space > SevenTenths(chunk_size)
                      THEN start + last_space + 1
                      ELSE end
        ELSE end

\* The window moved by its length less the overlap, without the clamp
NextStart_NoClamp(start, end, overlap) == end - overlap

\* The next window placed one overlap after the end of this one
NextStart_Beyond(start, end, overlap) == Max({start + 1, end + overlap})

\* start = max(start + 1, end - overlap)
NextStart(start, end, overlap) == Max({start + 1, end - overlap})

\* chunk_text_with_pages: the pages with text
RECURSIVE PagesWithText(_)
PagesWithText(pages) ==
    IF pages = <<>> THEN <<>>
    ELSE (IF Strip(Head(pages).text) = "" THEN <<>> ELSE <<Head(pages)>>)
             \o PagesWithText(Tail(pages))

\* chunk_text_with_pages: page_boundaries, (start_position, page_number)
RECURSIVE PageBoundaries(_, _)
PageBoundaries(pages, current_position) ==
    IF pages = <<>> THEN <<>>
    ELSE << [pos |-> current_position, page |-> Head(pages).page_number] >>
             \o PageBoundaries(Tail(pages),
                               current_position + Len(Head(pages).text) + 2)

\* chunk_text_with_pages: combined_text
RECURSIVE CombinedText(_)
CombinedText(pages) ==
    IF pages = <<>> THEN ""
    ELSE IF Len(pages) = 1 THEN pages[1].text
    ELSE pages[1].text \o "\n\n" \o CombinedText(Tail(pages))

\* chunk_text_with_pages: optimal_chunk_size and optimal_overlap
OptimalSizes(total_length, chunk_size, overlap) ==
    IF total_length > 0
    THEN IF total_length < 2000
         THEN LET size == Max({100, total_length \div 10})
              IN  [chunk_size |-> size, overlap |-> Max({20, size \div 5})]
         ELSE IF total_length < 5000
         THEN LET size == Min({500, Max({300, total_length \div 10})})
              IN  [chunk_size |-> size, overlap |-> Min({overlap, size \div 5})]
         ELSE IF total_length < 10000
         THEN LET size == Min({700, Max({500, total_length \div 10})})
              IN  [chunk_size |-> size, overlap |-> Min({overlap, size \div 5})]
         ELSE [chunk_size |-> chunk_size, overlap |-> overlap]
    ELSE [chunk_size |-> chunk_size, overlap |-> overlap]

\* chunk_text_with_pages: the page of the chunk that starts at start
RECURSIVE ChunkPage(_, _, _)
ChunkPage(boundaries, start, chunk_page) ==
    IF boundaries = <<>> THEN chunk_page
    ELSE IF Head(boundaries).pos <= start
         THEN ChunkPage(Tail(boundaries), start, Head(boundaries).page)
         ELSE chunk_page

\* Default chunk_size and overlap of the two methods
DefaultChunkSize == 1000
DefaultOverlap == 200

\* chunk_text up to the loop; `if not text: return []`
ChunkTextCall(texts) ==
    /\ ck_pc = "idle"
    /\ \E text \in texts, chunk_size \in ChunkSizes, overlap \in ChunkOverlaps :
           /\ ck_text' = text
           /\ ck_chunk_size' = chunk_size
           /\ ck_overlap' = overlap
           /\ ck_pc' = IF text = "" THEN "returned" ELSE "running"
    /\ ck_op' = "chunk_text"
    /\ ck_boundaries' = <<>>
    /\ UNCHANGED <<ck_start, ck_chunks, ck_windows>>
    /\ UNCHANGED nonChunk

\* chunk_text_with_pages up to the loop; `if not pages: return []`
ChunkPagesStart ==
    /\ ck_pc = "idle"
    /\ \E pages \in PageLists :
           LET kept == PagesWithText(pages)
               combined_text == CombinedText(kept)
               sizes == OptimalSizes(Len(combined_text), DefaultChunkSize, DefaultOverlap)
           IN  /\ ck_text' = combined_text
               /\ ck_chunk_size' = sizes.chunk_size
               /\ ck_overlap' = sizes.overlap
               /\ ck_boundaries' = PageBoundaries(kept, 0)
               /\ ck_pc' = IF combined_text = "" THEN "returned" ELSE "running"
    /\ ck_op' = "chunk_text_with_pages"
    /\ UNCHANGED <<ck_start, ck_chunks, ck_windows>>
    /\ UNCHANGED nonChunk

\* One iteration of `while start < text_length`, the break at its end included
ChunkStep ==
    /\ ck_pc = "running"
    /\ LET end == WindowEnd(ck_text, ck_start, ck_chunk_size)
           chunk_text == Strip(PySlice(ck_text, ck_start, end))
           start == NextStart(ck_start, end, ck_overlap)
       IN  /\ ck_chunks' =
                  IF chunk_text = "" THEN ck_chunks
                  ELSE Append(ck_chunks,
                              [text |-> chunk_text,
                               page |-> ChunkPage(ck_boundaries, ck_start, 0)])
           /\ ck_windows' = Append(ck_windows, [start |-> ck_start, end |-> end,
                                                kept |-> chunk_text # ""])
           /\ ck_start' = start
           /\ ck_pc' = IF start >= Len(ck_text) THEN "returned" ELSE "running"
    /\ UNCHANGED <<ck_op, ck_text, ck_chunk_size, ck_overlap, ck_boundaries>>
    /\ UNCHANGED nonChunk

ChunkTextStart == ChunkTextCall(ChunkTexts)

ChunkTextStartShort == ChunkTextCall(ShortChunkTexts)

ChunkIdle ==
    /\ ck_pc = "idle"
    /\ ck_op = "none"
    /\ ck_text = ""
    /\ ck_chunk_size = DefaultChunkSize
    /\ ck_overlap = DefaultOverlap
    /\ ck_boundaries = <<>>
    /\ ck_start = 0
    /\ ck_chunks = <<>>
    /\ ck_windows = <<>>

ChunkNext ==
    \/ ChunkTextStart
    \/ ChunkPagesStart
    \/ ChunkStep

ChunkLiveNext ==
    \/ ChunkTextStartShort
    \/ ChunkPagesStart
    \/ ChunkStep

-----------------------------------------------------------------------------
(* Regular-expression pieces used by the gap parser (gap_detector.py)        *)

UpperChars ==
    {"A", "B", "C", "D", "E", "F", "G", "H", "I", "J", "K", "L", "M",
     "N", "O", "P", "Q", "R", "S", "T", "U", "V", "W", "X", "Y", "Z"}
LowerChars ==
    {"a", "b", "c", "d", "e", "f", "g", "h", "i", "j", "k", "l", "m",
     "n", "o", "p", "q", "r", "s", "t", "u", "v", "w", "x", "y", "z"}
DigitChars == {"0", "1", "2", "3", "4", "5", "6", "7", "8", "9"}

\* \w
IsWord(c) == c \in UpperChars \/ c \in LowerChars \/ c \in DigitChars \/ c = "_"

\* \b in front of position i
Boundary(s, i) ==
    LET differ(before, here) == before # here
    IN  differ(IsWord(At(s, i - 1)), IsWord(At(s, i)))

\* The end of the longest run of characters of `class` that starts at i:
\* the first position at or after i whose character is outside the class.
RunEnd(s, i, class) ==
    Min({j \in i..(Len(s) + 1) : At(s, j) \notin class})

Spaces == {" ", "\n", "\t", "\r"}

\* \s* from position i
SkipSpace(s, i) == RunEnd(s, i, Spaces)

\* s.split('\n')[0]
FirstLine(s) ==
    LET nl == FindFrom(s, "\n", 1)
    IN  IF nl = 0 THEN s ELSE SubSeq(s, 1, nl - 1)

\* sep.join(seq)
RECURSIVE JoinWith(_, _)
JoinWith(seq, sep) ==
    IF seq = <<>> THEN ""
    ELSE IF Len(seq) = 1 THEN seq[1]
    ELSE seq[1] \o sep \o JoinWith(Tail(seq), sep)

\* max(s.rfind('.'), s.rfind('!'), s.rfind('?')): 0-based, -1 when absent
LastSentenceEnd(s) ==
    LET hits == {i \in 1..Len(s) : SubSeq(s, i, i) \in {".", "!", "?"}}
    IN  IF hits = {} THEN -1 ELSE Max(hits) - 1

\* `\s*:?\s*(.+?)` after a label that ends in front of position a: where the
\* group starts, 0 when nothing is left for it. The three optional pieces
\* are greedy; when they reach the end of the text the last character they
\* took (a blank or the colon) is given back to the group.
GroupStart(s, a) ==
    LET colon(w1) == IF At(s, w1) = ":" THEN w1 + 1 ELSE w1
        start(q) == IF q <= Len(s) THEN q
                    ELSE IF q - 1 >= a THEN q - 1
                    ELSE 0
    IN  start(SkipSpace(s, colon(SkipSpace(s, a))))

\* `word\s+GAP` (gap) or `word` at position p of the lower-cased text l:
\* the position after it, 0 when it does not match
MarkerEnd(l, word, gap, p) ==
    LET a == p + Len(word)
        end(b) == IF b > a /\ StartsAt(l, "gap", b) THEN b + 3 ELSE 0
    IN  IF ~StartsAt(l, word, p) THEN 0
        ELSE IF ~gap THEN a
        ELSE end(SkipSpace(l, a))

\* `Why\s+(Needed|Important|Required)` at position p of l: the position
\* after it, 0 when it does not match
WhyLabelEnd(l, p) ==
    LET end(b, ws) == IF b = p + 3 \/ ws = {} THEN 0
                      ELSE b + Len(CHOOSE w \in ws : TRUE)
        word(b) == end(b, {w \in {"needed", "important", "required"} : StartsAt(l, w, b)})
    IN  IF ~StartsAt(l, "why", p) THEN 0
        ELSE word(SkipSpace(l, p + 3))

\* `Why\s+(Needed|Important|Required)\s*:` at position p of l
WhyColonAt(l, p) ==
    LET colon(e) == e # 0 /\ At(l, SkipSpace(l, e)) = ":"
    IN  colon(WhyLabelEnd(l, p))

\* `Explanation\s*:` at position p of l
ExplanationColonAt(l, p) ==
    /\ StartsAt(l, "explanation", p)
    /\ At(l, SkipSpace(l, p + 11)) = ":"

\* `$` in front of position p: the end of the text, or its last newline
AtEnd(s, p) == p = Len(s) + 1 \/ (p = Len(s) /\ At(s, p) = "\n")

-----------------------------------------------------------------------------
(* GapDetector._ensure_complete_sentence, _truncate_at_sentence              *)

IncompleteEndings ==
    {"and", "or", "but", "because", "since", "when", "if", "while", "although",
     "the", "a", "an", "this", "that", "these", "those",
     "is", "are", "was", "were", "has", "have", "had", "will", "would",
     "should", "could"}

\* re.search(r'\b(w1|w2|...)\s*$', text, re.IGNORECASE) on a stripped text
EndsIncomplete(text) ==
    LET ends(l) == \E w \in IncompleteEndings :
                       /\ Len(l) >= Len(w)
                       /\ StartsAt(l, w, Len(l) - Len(w) + 1)
                       /\ Boundary(l, Len(l) - Len(w) + 1)
    IN  ends(Lower(text))

\* (the branch for a text that ends in "..." stands behind the test for a
\* final full stop and is never taken)
EnsureCompleteSentence(text0) ==
    LET shorten(text, cut) == IF cut > 0 THEN SubSeq(text, 1, cut + 1) ELSE text \o "."
        complete(text) ==
            IF At(text, Len(text)) \in {".", "!", "?"} THEN text
            ELSE IF EndsIncomplete(text) THEN shorten(text, LastSentenceEnd(text))
            ELSE text
    IN  IF text0 = "" THEN text0 ELSE complete(Strip(text0))

\* The two distances of _truncate_at_sentence
SentenceSlack == 50
WordSlack == 30

TruncateAtSentence(text, max_length) ==
    LET cut(truncated, last_sentence_end, last_space) ==
            IF last_sentence_end > max_length - SentenceSlack
            THEN SubSeq(truncated, 1, last_sentence_end + 1)
            ELSE IF last_space > max_length - WordSlack
                 THEN SubSeq(truncated, 1, last_space) \o "."
            ELSE truncated \o "..."
        ends(truncated) == cut(truncated, LastSentenceEnd(truncated), RFind(truncated, " "))
    IN  IF Len(text) <= max_length THEN text
        ELSE ends(SubSeq(text, 1, max_length))

-----------------------------------------------------------------------------
(* GapDetector._ensure_specific_and_complete, _extract_specific_reason,      *)
(* _generate_specific_why_needed                                             *)

\* `\b(w1|w2|...)\s*\d+` somewhere in the lower-cased text l: the position of
\* the number of the leftmost match, 0 when there is none
WordNumberAt(l, words) ==
    LET hit(p) == {w \in words : /\ StartsAt(l, w, p)
                                 /\ At(l, SkipSpace(l, p + Len(w))) \in DigitChars}
        number(p) == SkipSpace(l, p + Len(CHOOSE w \in hit(p) : TRUE))
        leftmost(at) == IF at = {} THEN 0 ELSE number(Min(at))
    IN  leftmost({p \in 1..Len(l) : Boundary(l, p) /\ hit(p) # {}})

\* The digits \d+ that start at position n
NumberAt(s, n) == Slice(s, n, RunEnd(s, n, DigitChars) - 1)

\* `\b(f1|f2|...)\s+(s1|s2|...)` somewhere in l
WordPair(l, firsts, seconds) ==
    LET second(a, b) == b > a /\ \E s2 \in seconds : StartsAt(l, s2, b)
    IN  \E p \in 1..Len(l) : \E w \in firsts :
            /\ Boundary(l, p)
            /\ StartsAt(l, w, p)
            /\ second(p + Len(w), SkipSpace(l, p + Len(w)))

\* `\b(w1|w2|...)\b` somewhere in l
HasWord(l, words) ==
    \E p \in 1..Len(l) : \E w \in words :
        /\ Boundary(l, p)
        /\ StartsAt(l, w, p)
        /\ Boundary(l, p + Len(w))

QuestionWords == {"question", "q.", "q"}
AssignmentWords == {"assignment", "assn.", "assn"}

GenericWhyPhrases ==
    {"this concept is important for understanding",
     "this concept is important to understand",
     "important for understanding the course material",
     "important to understand the course material",
     "this concept is important",
     "needs to be understood",
     "important for the course",
     "essential for learning"}

\* The generic phrases the final pass looks for
GenericWhyPhrasesFinal ==
    {"this concept is important for understanding",
     "this concept is important to understand",
     "important for understanding the course material",
     "important to understand the course material"}

IsSpecificWhy(why_needed) ==
    LET specific(l) ==
            \/ WordNumberAt(l, QuestionWords) # 0
            \/ WordNumberAt(l, AssignmentWords \cup {"hw.", "hw", "homework"}) # 0
            \/ WordNumberAt(l, {"problem", "prob.", "prob"}) # 0
            \/ WordNumberAt(l, {"exam", "test", "quiz"}) # 0
            \/ WordNumberAt(l, {"section", "chapter", "lecture"}) # 0
            \/ WordPair(l, {"required", "needed", "necessary"}, {"for", "to", "in"})
            \/ WordPair(l, {"without", "missing", "lack"}, {"this", "understanding", "knowledge"})
            \/ WordPair(l, {"cannot", "unable"}, {"to", "solve", "complete", "understand"})
            \/ WordPair(l, {"prevents", "blocks", "stops"}, {"you", "student", "completing"})
    IN  specific(Lower(why_needed))

\* Python str.capitalize()
UpperChar(c) ==
    IF c \in LowerChars THEN CHOOSE u \in UpperChars : LowerChar(u) = c ELSE c
Capitalize(s) ==
    IF s = "" THEN "" ELSE UpperChar(At(s, 1)) \o Lower(SubSeq(s, 2, Len(s)))

\* `\s+([^.]+)` from position a: the last position of the match, 0 when it
\* does not match. The blanks are greedy; when nothing but a full stop or
\* the end follows them, the last blank is given to the group.
RestOfSentenceEnd(s, a) ==
    LET sentence(dot) == IF dot = 0 THEN Len(s) ELSE dot - 1
        end(b) == IF b = a THEN 0
                  ELSE IF At(s, b) \notin {"", "."} THEN sentence(FindFrom(s, ".", b))
                  ELSE IF b - a >= 2 THEN b - 1
                  ELSE 0
    IN  end(SkipSpace(s, a))

\* re.search of `(w1|w2|...)\s+([^.]+)`, or of
\* `(w1|w2|...)\s+(for|to|in)\s+([^.]+)` when `linked`: group(0), "" when
\* there is no match
ReasonPart(text, words, linked) ==
    LET part(l) ==
            LET link(a, b, ls) ==
                    IF b = a \/ ls = {} THEN 0
                    ELSE RestOfSentenceEnd(text, b + Len(CHOOSE k \in ls : TRUE))
                linked_tail(a, b) ==
                    link(a, b, {k \in {"for", "to", "in"} : StartsAt(l, k, b)})
                tail(a) == IF ~linked THEN RestOfSentenceEnd(text, a)
                           ELSE linked_tail(a, SkipSpace(l, a))
                ends(p) == {tail(p + Len(w)) : w \in {x \in words : StartsAt(l, x, p)}} \ {0}
                first(p) == Slice(text, p, CHOOSE e \in ends(p) : TRUE)
                leftmost(at) == IF at = {} THEN "" ELSE first(Min(at))
            IN  leftmost({p \in 1..Len(l) : ends(p) # {}})
    IN  part(Lower(text))

ExtractSpecificReason(text, concept) ==
    LET first(r1, r2, r3) == IF r1 # "" THEN r1 ELSE IF r2 # "" THEN r2 ELSE r3
        reason(reason_part) ==
            IF reason_part = "" THEN text
            ELSE IF /\ ~Contains(Lower(reason_part), "question")
                    /\ ~Contains(Lower(reason_part), "assignment")
                 THEN "Required for " \o concept \o " understanding. "
                      \o Capitalize(reason_part) \o "."
            ELSE Capitalize(reason_part)
    IN  reason(first(ReasonPart(text, {"required", "needed", "necessary"}, TRUE),
                     ReasonPart(text, {"without", "missing"}, FALSE),
                     ReasonPart(text, {"prevents", "blocks", "stops"}, FALSE)))

EnsureSpecificAndComplete(why_needed0, concept) ==
    LET is_generic(l) == \E phrase \in GenericWhyPhrases : Contains(l, phrase)
        better(why_needed, improved) ==
            IF is_generic(Lower(why_needed)) /\ ~IsSpecificWhy(why_needed)
               /\ improved # "" /\ improved # why_needed
            THEN improved
            ELSE why_needed
        specific(why_needed) ==
            EnsureCompleteSentence(better(why_needed, ExtractSpecificReason(why_needed, concept)))
    IN  IF why_needed0 = "" THEN why_needed0 ELSE specific(Strip(why_needed0))

\* The window of 200 characters on both sides of the concept in the document
DocWindow == 200

GenerateSpecificWhyNeeded(gap, doc_text) ==
    LET concept == gap.concept
        \* the lower-cased context of the concept in the document, "" when
        \* the document does not hold the concept
        window(concept_pos) ==
            IF concept_pos = 0 THEN ""
            ELSE Lower(Slice(doc_text, concept_pos - DocWindow,
                             concept_pos + Len(concept) + DocWindow - 1))
        why(le, q1, a1, lc, q2, a2) ==
            IF q1 # 0
            THEN "Required to solve Question " \o NumberAt(le, q1)
                 \o ". Without understanding " \o concept
                 \o ", you cannot complete this question."
            ELSE IF a1 # 0
            THEN "Required for Assignment " \o NumberAt(le, a1)
                 \o ". Missing knowledge of " \o concept
                 \o " prevents completing the assignment."
            ELSE IF q2 # 0
            THEN "Required to solve Question " \o NumberAt(lc, q2)
                 \o " from the document. Without " \o concept
                 \o ", you cannot answer this question."
            ELSE IF a2 # 0
            THEN "Required for Assignment " \o NumberAt(lc, a2)
                 \o " in the document. Missing " \o concept
                 \o " knowledge prevents completing this assignment."
            ELSE IF gap.category = "critical"
            THEN "Required to solve problems in the document. Without understanding "
                 \o concept \o ", you cannot complete essential tasks."
            ELSE "Enhances understanding of related topics. Learning " \o concept
                 \o " improves comprehension but is not strictly required for core tasks."
        numbers(le, lc) ==
            why(le, WordNumberAt(le, QuestionWords), WordNumberAt(le, AssignmentWords),
                lc, WordNumberAt(lc, QuestionWords), WordNumberAt(lc, AssignmentWords))
    IN  numbers(Lower(gap.explanation), window(FindSub(Lower(doc_text), Lower(concept))))

-----------------------------------------------------------------------------
(* GapDetector._parse_gaps_from_analysis: the primary pass and               *)
(* _extract_gap_details                                                      *)

NewGap(concept, category) ==
    [concept |-> concept, category |-> category, explanation |-> "", whyNeeded |-> ""]

\* No gap is open (current_gap is None)
NoGap == [concept |-> "", category |-> "none", explanation |-> "", whyNeeded |-> ""]

\* The end of the separator `\n\s*\n+` that starts at position p, 0 when
\* none starts there: the last newline of the blank run, which must hold a
\* second newline.
SeparatorEnd(s, p) ==
    LET last(nls) == IF At(s, p) # "\n" \/ nls = {} THEN 0 ELSE Max(nls)
    IN  last({j \in (p + 1)..(SkipSpace(s, p) - 1) : At(s, j) = "\n"})

\* re.split(r'\n\s*\n+', text)
RECURSIVE SplitSectionsFrom(_, _)
SplitSectionsFrom(s, from) ==
    LET split(at) ==
            IF at = 0 THEN <<Slice(s, from, Len(s))>>
            ELSE <<Slice(s, from, at - 1)>>
                 \o SplitSectionsFrom(s, SeparatorEnd(s, at) + 1)
        leftmost(ps) == IF ps = {} THEN 0 ELSE Min(ps)
    IN  split(leftmost({p \in from..Len(s) : SeparatorEnd(s, p) # 0}))

\* The sections the loop works on: stripped, the empty ones skipped
Sections(text) ==
    LET stripped(parts) ==
            SelectSeq([i \in 1..Len(parts) |-> Strip(parts[i])], LAMBDA sec : sec # "")
    IN  stripped(SplitSectionsFrom(text, 1))

\* re.search(word [\s+GAP] \s*:?\s*(.+?)(?:\n|$|Explanation|Why)) with
\* IGNORECASE and DOTALL: group(1), "" when there is no match
MarkerGroup(section, word, gap) ==
    LET group(l) ==
            LET start(e) == IF e = 0 THEN 0 ELSE GroupStart(section, e)
                q(p) == start(MarkerEnd(l, word, gap, p))
                stop(e) == \/ e = Len(l)
                           \/ At(l, e + 1) = "\n"
                           \/ StartsAt(l, "explanation", e + 1)
                           \/ StartsAt(l, "why", e + 1)
                from(a) == Slice(section, a, Min({e \in a..Len(l) : stop(e)}))
                leftmost(at) == IF at = {} THEN "" ELSE from(q(Min(at)))
            IN  leftmost({p \in 1..Len(l) : q(p) # 0})
    IN  group(Lower(section))

\* Patterns 1 and 2 (CRITICAL), 3 and 4 (SAFE): the GAP form first
MarkerMatch(section, word) ==
    LET first(gap_form) == IF gap_form # "" THEN gap_form
                           ELSE MarkerGroup(section, word, FALSE)
    IN  first(MarkerGroup(section, word, TRUE))

\* re.sub(r'^\d+[\.\)]\s*', '', s)
StripNumbering(s) ==
    LET strip(d) == IF d > 1 /\ At(s, d) \in {".", ")"}
                    THEN Slice(s, SkipSpace(s, d + 1), Len(s))
                    ELSE s
    IN  strip(RunEnd(s, 1, DigitChars))

\* The bullets of `[-•*]` that the texts here can hold
Bullets == {"-", "*"}

\* re.sub(r'^[-•*]\s*', '', s)
StripBullet(s) ==
    IF At(s, 1) \in Bullets THEN Slice(s, SkipSpace(s, 2), Len(s)) ELSE s

\* The concept name of a marker's group(1)
ConceptOf(group) == Strip(FirstLine(StripBullet(StripNumbering(Strip(group)))))

\* `(CRITICAL|SAFE)\s+(GAP)?\s*:` at position p of l: the position after
\* it, 0 when it does not match
MarkerColonEnd(l, p) ==
    LET colon(c) == IF At(l, c) = ":" THEN c + 1 ELSE 0
        gap(a, b) == IF b > a
                     THEN colon(SkipSpace(l, IF StartsAt(l, "gap", b) THEN b + 3 ELSE b))
                     ELSE 0
        after(a) == gap(a, SkipSpace(l, a))
        word(ws) == IF ws = {} THEN 0 ELSE after(p + Len(CHOOSE w \in ws : TRUE))
    IN  word({w \in {"critical", "safe"} : StartsAt(l, w, p)})

\* `\s*:?\s*` from position a: the position after it
ColonEnd(l, a) ==
    LET colon(w1) == IF At(l, w1) = ":" THEN w1 + 1 ELSE w1
    IN  SkipSpace(l, colon(SkipSpace(l, a)))

\* `Explanation\s*:?\s*` at position p of l: the position after it
ExplanationLabelEnd(l, p) ==
    IF ~StartsAt(l, "explanation", p) THEN 0 ELSE ColonEnd(l, p + 11)

\* `Why\s+(Needed|Important|Required)\s*:?\s*` at position p of l
WhyFullLabelEnd(l, p) ==
    LET label(e) == IF e = 0 THEN 0 ELSE ColonEnd(l, e)
    IN  label(WhyLabelEnd(l, p))

\* re.sub(pattern, '', s) where ends[p] is the position after the match of
\* the pattern that starts at p (0: none)
RECURSIVE RemoveSpans(_, _, _)
RemoveSpans(s, ends, from) ==
    LET remove(at) ==
            IF at = 0 THEN Slice(s, from, Len(s))
            ELSE Slice(s, from, at - 1) \o RemoveSpans(s, ends, ends[at])
        leftmost(ps) == IF ps = {} THEN 0 ELSE Min(ps)
    IN  remove(leftmost({p \in from..Len(s) : ends[p] # 0}))

\* The text that follows the concept, with the labels taken out
AfterConcept(text, concept) ==
    LET markers(s, l) == RemoveSpans(s, [p \in 1..Len(s) |-> MarkerColonEnd(l, p)], 1)
        explanations(s, l) == RemoveSpans(s, [p \in 1..Len(s) |-> ExplanationLabelEnd(l, p)], 1)
        whys(s, l) == RemoveSpans(s, [p \in 1..Len(s) |-> WhyFullLabelEnd(l, p)], 1)
        no_markers(s) == markers(s, Lower(s))
        no_explanations(s) == explanations(s, Lower(s))
        no_whys(s) == whys(s, Lower(s))
        after(concept_pos) ==
            IF concept_pos = 0 THEN ""
            ELSE Strip(no_whys(no_explanations(no_markers(
                     Slice(text, concept_pos + Len(concept),
                           concept_pos + Len(concept) + 299)))))
    IN  after(FindSub(Lower(text), Lower(concept)))

\* re.split(r'[.!?]', s)[0]
FirstSentence(s) ==
    LET hits == {i \in 1..Len(s) : SubSeq(s, i, i) \in {".", "!", "?"}}
    IN  IF hits = {} THEN s ELSE SubSeq(s, 1, Min(hits) - 1)

WhyFallbackWords ==
    {"why", "needed", "important", "required", "prevents", "without", "cannot", "missing"}

\* The minimum length of a text taken as an explanation without a label
MinFreeExplanation == 20

ExtractGapDetails(text, gap) ==
    LET details(l) ==
            LET \* Explanation\s*:?\s*(.+?)(?=Why ..:|CRITICAL\s+GAP|SAFE\s+GAP|$)
                estop(e) == \/ WhyColonAt(l, e + 1)
                            \/ MarkerEnd(l, "critical", TRUE, e + 1) # 0
                            \/ MarkerEnd(l, "safe", TRUE, e + 1) # 0
                            \/ AtEnd(text, e + 1)
                egroup(eq) == Slice(text, eq, Min({e \in eq..Len(text) : estop(e)}))
                \* the text in front of "Why Needed:" when there is no label
                unlabel(cut) == IF At(cut, 1) \in {":", "-"}
                                THEN Slice(cut, SkipSpace(cut, 2), Len(cut))
                                ELSE cut
                potential(before) ==
                    IF gap.concept # "" /\ StartsAt(Lower(before), Lower(gap.concept), 1)
                    THEN unlabel(Strip(Slice(before, Len(gap.concept) + 1, Len(before))))
                    ELSE before
                free_text(text_before) ==
                    IF Len(text_before) > MinFreeExplanation
                    THEN EnsureCompleteSentence(text_before)
                    ELSE gap.explanation
                free(wcs) ==
                    IF wcs = {} THEN gap.explanation
                    ELSE free_text(potential(Strip(Slice(text, 1, Min(wcs) - 1))))
                labelled(eq) ==
                    IF eq # 0 THEN EnsureCompleteSentence(SqueezeSpace(Strip(egroup(eq))))
                    ELSE free({p \in 1..Len(l) : WhyColonAt(l, p)})
                label(ep) == IF ep = 0 THEN 0 ELSE GroupStart(text, ep + 11)
                explanation1 == labelled(label(FindSub(l, "explanation")))
                \* Why\s+(..)\s*:?\s*(.+?)(?=CRITICAL\s+GAP|SAFE\s+GAP|Explanation\s*:|$)
                wstart(e) == IF e = 0 THEN 0 ELSE GroupStart(text, e)
                wq(p) == wstart(WhyLabelEnd(l, p))
                wstop(e) == \/ MarkerEnd(l, "critical", TRUE, e + 1) # 0
                            \/ MarkerEnd(l, "safe", TRUE, e + 1) # 0
                            \/ ExplanationColonAt(l, e + 1)
                            \/ AtEnd(text, e + 1)
                wgroup(a) == Slice(text, a, Min({e \in a..Len(text) : wstop(e)}))
                \* the lines that hold one of the keywords and no marker
                keyword_lines(lines) ==
                    SelectSeq([i \in 1..Len(lines) |-> Strip(lines[i])],
                        LAMBDA line :
                            /\ line # ""
                            /\ HasWord(Lower(line), WhyFallbackWords)
                            /\ \A p \in 1..Len(line) : MarkerColonEnd(Lower(line), p) = 0)
                why_text(wat, why_lines) ==
                    IF wat # {} THEN SqueezeSpace(Strip(wgroup(wq(Min(wat)))))
                    ELSE Strip(JoinWith(why_lines, " "))
                why(wat, why_lines) ==
                    IF wat # {} \/ why_lines # <<>>
                    THEN EnsureSpecificAndComplete(why_text(wat, why_lines), gap.concept)
                    ELSE gap.whyNeeded
                whyNeeded1 == why({p \in 1..Len(l) : wq(p) # 0},
                                  keyword_lines(Split(text, "\n")))
                \* the first paragraph after the concept when there is no explanation
                paragraph(after_concept, first_sentence) ==
                    IF Len(first_sentence) > MinFreeExplanation
                    THEN EnsureCompleteSentence(first_sentence \o ".")
                    ELSE EnsureCompleteSentence(Prefix(after_concept, 200))
                after(explanation, after_concept) ==
                    IF Len(after_concept) <= MinFreeExplanation THEN explanation
                    ELSE paragraph(after_concept, FirstSentence(after_concept))
                explanation2(explanation) ==
                    IF explanation # "" \/ gap.concept = "" THEN explanation
                    ELSE after(explanation, AfterConcept(text, gap.concept))
            IN  [gap EXCEPT !.explanation = explanation2(explanation1),
                            !.whyNeeded = whyNeeded1]
    IN  details(Lower(text))

\* One turn of the loop over the sections: the gap that is closed (NoGap
\* when none is) and the gap that is open afterwards
SectionStep_SafeFirst(section, current_gap) ==
    LET details(gap) == IF gap = NoGap THEN NoGap ELSE ExtractGapDetails(section, gap)
        step(critical_match, safe_match) ==
            [closed |-> IF critical_match # "" \/ safe_match # "" THEN current_gap
                        ELSE NoGap,
             open |-> details(IF safe_match # ""
                              THEN NewGap(ConceptOf(safe_match), "safe")
                              ELSE IF critical_match # ""
                              THEN NewGap(ConceptOf(critical_match), "critical")
                              ELSE current_gap)]
    IN  step(MarkerMatch(section, "critical"), MarkerMatch(section, "safe"))

SectionStep(section, current_gap) ==
    LET details(gap) == IF gap = NoGap THEN NoGap ELSE ExtractGapDetails(section, gap)
        step(critical_match, safe_match) ==
            [closed |-> IF critical_match # "" \/ safe_match # "" THEN current_gap
                        ELSE NoGap,
             open |-> details(IF critical_match # ""
                              THEN NewGap(ConceptOf(critical_match), "critical")
                              ELSE IF safe_match # ""
                              THEN NewGap(ConceptOf(safe_match), "safe")
                              ELSE current_gap)]
    IN  step(MarkerMatch(section, "critical"), MarkerMatch(section, "safe"))

-----------------------------------------------------------------------------
(* GapDetector._parse_alternative_format, _parse_list_format                 *)

\* The position after `\d+[\.\)]` (numbered) or `[-•*]` (not numbered) at
\* position p, 0 when it does not match
ItemPrefixEnd(s, p, numbered) ==
    LET number(d) == IF d > p /\ At(s, d) \in {".", ")"} THEN d + 1 ELSE 0
    IN  IF numbered THEN number(RunEnd(s, p, DigitChars))
        ELSE IF At(s, p) \in Bullets THEN p + 1
        ELSE 0

\* One pattern of _parse_alternative_format, from position `from` on:
\* prefix \s* (CRITICAL|SAFE) \s*:?\s* (.+?) (?:\n|$), with IGNORECASE and
\* MULTILINE. A match whose group is a lone blank or colon gives no gap.
RECURSIVE AlternativeFrom(_, _, _)
AlternativeFrom(text, numbered, from) ==
    LET alternative(l) ==
            LET \* where the word CRITICAL or SAFE of a match that starts at p stands
                word_at(b) == IF StartsAt(l, "critical", b) \/ StartsAt(l, "safe", b) THEN b
                              ELSE 0
                prefixed(e) == IF e = 0 THEN 0 ELSE word_at(SkipSpace(l, e))
                word(p) == prefixed(ItemPrefixEnd(l, p, numbered))
                critical(w) == StartsAt(l, "critical", w)
                group(w) == IF w = 0 THEN 0
                            ELSE GroupStart(text, w + (IF critical(w) THEN 8 ELSE 4))
                q(p) == group(word(p))
                line_end(a, nl) == IF nl = 0 THEN Len(text) ELSE IF nl = a THEN nl ELSE nl - 1
                gap(concept, category) ==
                    IF Len(concept) > 3 /\ Len(concept) < 100
                    THEN <<NewGap(concept, category)>>
                    ELSE <<>>
                match(w, a, e) ==
                    gap(Strip(FirstLine(StripNumbering(Strip(Slice(text, a, e))))),
                        IF critical(w) THEN "critical" ELSE "safe")
                    \o AlternativeFrom(text, numbered, e + 1)
                group_at(w, a) == match(w, a, line_end(a, FindFrom(text, "\n", a)))
                match_at(w) == group_at(w, group(w))
                leftmost(at) == IF at = {} THEN <<>> ELSE match_at(word(Min(at)))
            IN  leftmost({p \in from..Len(l) : q(p) # 0})
    IN  alternative(Lower(text))

ParseAlternativeFormat(text) ==
    AlternativeFrom(text, TRUE, 1) \o AlternativeFrom(text, FALSE, 1)

ListCriticalWords ==
    {"critical", "must", "required", "essential", "necessary", "exam", "assignment"}

\* re.match(r'^(\d+[\.\)]|[-•*])\s*(.+?)(?:\s*:|\s*$)', line) on a stripped
\* line: group(2) stripped, "" when there is no match
ListItem(line) ==
    LET item(q, colon) ==
            IF q > Len(line) THEN ""
            ELSE Strip(Slice(line, q, IF colon = 0 THEN Len(line) ELSE colon - 1))
        group(q) == item(q, FindFrom(line, ":", q + 1))
        prefix(n, b) == IF n = 0 /\ b = 0 THEN ""
                        ELSE group(SkipSpace(line, IF n # 0 THEN n ELSE b))
    IN  prefix(ItemPrefixEnd(line, 1, TRUE), ItemPrefixEnd(line, 1, FALSE))

ParseListFormat(text) ==
    LET list(lines) ==
            LET context(i) ==
                    JoinWith(SubSeq(lines, Max({1, i - 2}), Min({Len(lines), i + 4})), " ")
                category(i) == IF HasWord(Lower(context(i)), ListCriticalWords)
                               THEN "critical" ELSE "safe"
                add(gaps, item, i) ==
                    IF Len(item) > 5 /\ Len(item) < 100
                    THEN Append(gaps, NewGap(item, category(i)))
                    ELSE gaps
                gap_of[i \in 0..Len(lines)] ==
                    IF i = 0 THEN <<>>
                    ELSE add(gap_of[i - 1], ListItem(Strip(lines[i])), i)
            IN  gap_of[Len(lines)]
    IN  list(Split(text, "\n"))

-----------------------------------------------------------------------------
(* GapDetector._cleanup_gaps                                                 *)

\* The caps of _cleanup_gaps
MaxExplanationLen == 500
MaxWhyNeededLen == 300

\* The shortest concept that is kept
MinConceptLen == 3

DefaultExplanation(concept) ==
    "Concept: " \o concept \o " needs to be understood for this course."

\* One gap of the loop of _cleanup_gaps
CleanGap(gap, doc_text) ==
    LET capped(concept, explanation, whyNeeded) ==
            [gap EXCEPT !.concept = concept,
                        !.explanation = IF Len(explanation) > MaxExplanationLen
                                        THEN TruncateAtSentence(explanation, MaxExplanationLen)
                                        ELSE explanation,
                        !.whyNeeded = IF Len(whyNeeded) > MaxWhyNeededLen
                                      THEN TruncateAtSentence(whyNeeded, MaxWhyNeededLen)
                                      ELSE whyNeeded]
        why(concept, explanation, w0) ==
            IF w0 = ""
            THEN GenerateSpecificWhyNeeded(
                     [gap EXCEPT !.concept = concept, !.explanation = explanation,
                                 !.whyNeeded = w0], doc_text)
            ELSE EnsureSpecificAndComplete(w0, concept)
        fields(concept, explanation) ==
            capped(concept, explanation, why(concept, explanation, Strip(gap.whyNeeded)))
        explain(concept, e0) == IF e0 = "" THEN DefaultExplanation(concept)
                                ELSE EnsureCompleteSentence(e0)
        clean(concept) == fields(concept, explain(concept, Strip(gap.explanation)))
    IN  clean(Strip(gap.concept))

\* concept.lower().strip()
ConceptKey(concept) == Strip(Lower(concept))

CleanupGaps(gaps, doc_text) ==
    LET keep(i) == /\ gaps[i].concept # ""
                   /\ Len(Strip(gaps[i].concept)) >= MinConceptLen
        first(i) == \A j \in 1..(i - 1) :
                        keep(j) => ConceptKey(gaps[j].concept) # ConceptKey(gaps[i].concept)
        cleaned[i \in 0..Len(gaps)] ==
            IF i = 0 THEN <<>>
            ELSE IF keep(i) /\ first(i)
                 THEN Append(cleaned[i - 1], CleanGap(gaps[i], doc_text))
            ELSE cleaned[i - 1]
    IN  cleaned[Len(gaps)]

-----------------------------------------------------------------------------
(* Capitalised phrases and acronyms                                          *)

\* `[A-Z][a-z]+` at position p: its last position, 0 when it does not match
CapWordEnd(s, p) ==
    IF At(s, p) \in UpperChars /\ At(s, p + 1) \in LowerChars
    THEN RunEnd(s, p + 1, LowerChars) - 1
    ELSE 0

\* `\b([A-Z][a-z]+(?:\s+[A-Z][a-z]+){lo,hi})\b` at position p, for hi <= 3:
\* the last position of the longest match, 0 when there is none
PhraseEnd(s, p, lo, hi) ==
    LET follow(e, b) == IF e = 0 \/ b = e + 1 THEN 0 ELSE CapWordEnd(s, b)
        next(e) == follow(e, SkipSpace(s, e + 1))
        word(e) == e # 0 /\ ~IsWord(At(s, e + 1))
        pick(ends, ks) == IF IsWord(At(s, p - 1)) \/ ks = {} THEN 0 ELSE ends[Max(ks) + 1]
        longest(ends) == pick(ends, {k \in lo..hi : word(ends[k + 1])})
        from2(e0, e1, e2) == longest(<<e0, e1, e2, next(e2)>>)
        from1(e0, e1) == from2(e0, e1, next(e1))
        from0(e0) == from1(e0, next(e0))
    IN  from0(CapWordEnd(s, p))

\* `\b([A-Z]{2,5})\b` at position p
AcronymEnd(s, p) ==
    LET end(r) == IF /\ ~IsWord(At(s, p - 1))
                     /\ r - p >= 2 /\ r - p <= 5
                     /\ ~IsWord(At(s, r))
                  THEN r - 1 ELSE 0
    IN  end(RunEnd(s, p, UpperChars))

\* `([A-Z]{2,})` at position p
CapsRunEnd(s, p) ==
    LET end(r) == IF r - p >= 2 THEN r - 1 ELSE 0
    IN  end(RunEnd(s, p, UpperChars))

\* re.findall: the matches from left to right, none overlapping another;
\* ends[p] is the last position of the match that starts at p (0: none)
RECURSIVE FindAll(_, _, _)
FindAll(s, ends, from) ==
    LET match(at) == <<Slice(s, at, ends[at])>> \o FindAll(s, ends, ends[at] + 1)
        leftmost(ps) == IF ps = {} THEN <<>> ELSE match(Min(ps))
    IN  leftmost({p \in from..Len(s) : ends[p] # 0})

\* re.findall(r'\b([A-Z][a-z]+(?:\s+[A-Z][a-z]+){lo,hi})\b', s)
Phrases(s, lo, hi) == FindAll(s, [p \in 1..Len(s) |-> PhraseEnd(s, p, lo, hi)], 1)

Acronyms(s) == FindAll(s, [p \in 1..Len(s) |-> AcronymEnd(s, p)], 1)

CapsRuns(s) == FindAll(s, [p \in 1..Len(s) |-> CapsRunEnd(s, p)], 1)

Range(seq) == {seq[i] : i \in 1..Len(seq)}

\* The orders in which a set can be listed (list(set(...)))
Orders(S) ==
    {o \in [1..Cardinality(S) -> S] : \A i, j \in 1..Cardinality(S) : o[i] = o[j] => i = j}

-----------------------------------------------------------------------------
(* GapDetector._is_generic_gaps, _is_generic_concept,                        *)
(* _extract_concepts_aggressively                                            *)

\* The words of `words`, `\s+` between them, at position p of l
RECURSIVE WordsAt(_, _, _)
WordsAt(l, words, p) ==
    LET rest(a, b) == b > a /\ WordsAt(l, Tail(words), b)
    IN  /\ StartsAt(l, words[1], p)
        /\ \/ Len(words) = 1
           \/ rest(p + Len(words[1]), SkipSpace(l, p + Len(words[1])))

\* re.search of one of the patterns in l
HasPattern(l, patterns) ==
    \E words \in patterns : \E p \in 1..Len(l) : WordsAt(l, words, p)

\* The patterns of _is_generic_gaps; `concepts?` gives two word lists, and a
\* final `s?` matches nothing more than the word does
GenericGapPatterns ==
    { <<"concept", "mentioned">>, <<"concepts", "mentioned">>,
      <<"topic", "that", "appear">>, <<"topics", "that", "appear">>,
      <<"mathematical", "or", "computational", "concept">>,
      <<"concept", "that", "need">>, <<"concepts", "that", "need">>,
      <<"knowledge", "gap">>,
      <<"unexplained", "concept">>,
      <<"missing", "information">>,
      <<"concept", "not", "fully", "explained">>,
      <<"concepts", "not", "fully", "explained">> }

\* The patterns of _is_generic_concept
GenericConceptPatterns ==
    { <<"concept", "mentioned">>, <<"concepts", "mentioned">>,
      <<"topic", "that", "appear">>, <<"topics", "that", "appear">>,
      <<"mathematical", "or", "computational">>,
      <<"concept", "that", "need">>, <<"concepts", "that", "need">>,
      <<"knowledge", "gap">>,
      <<"unexplained">>,
      <<"missing">> }

SingleWordGenerics ==
    {"mathematical", "topics", "concepts", "please", "due", "gap", "analysis",
     "review", "document", "manually", "identify", "uploading", "different",
     "contact", "support", "persists", "results", "best", "try", "filtering",
     "content", "detailed", "generated", "automatically", "appear", "covered",
     "notes", "assignments", "computational", "mentioned", "explained", "unexplained",
     "missing", "information", "knowledge", "needs", "needed", "understanding"}

GenericCommonWords == {"the", "and", "for", "are", "but", "not", "you", "all", "can"}

IsGenericConcept(concept) == HasPattern(Lower(concept), GenericConceptPatterns)

\* generic_count > len(gaps) * 0.5
IsGenericGaps(gaps) ==
    LET generic(concept) == \/ concept \in SingleWordGenerics
                            \/ Len(concept) <= 3
                            \/ concept \in GenericCommonWords
                            \/ HasPattern(concept, GenericGapPatterns)
        generic_count ==
            Cardinality({i \in 1..Len(gaps) : generic(Lower(Strip(gaps[i].concept)))})
    IN  \/ gaps = <<>>
        \/ 2 * generic_count > Len(gaps)

AggressiveCommonWords ==
    {"the", "and", "for", "are", "but", "not", "you", "all", "can", "had",
     "her", "was", "one", "our", "out", "day", "get", "has", "him", "his",
     "how", "its", "may", "new", "now", "old", "see", "two", "way", "who",
     "boy", "did", "let", "put", "say", "she", "too", "use", "why",
     "CRITICAL", "SAFE", "GAP", "Explanation", "Needed", "Important"}

AggressiveCriticalWords ==
    {"critical", "must", "required", "essential", "necessary", "exam",
     "assignment", "question", "problem"}

\* The window of 100 characters on both sides of the concept
CategoryWindow == 100

\* set(concepts + acronyms)
AggressiveConcepts(text) == Range(Phrases(text, 0, 2)) \cup Range(Acronyms(text))

\* _extract_concepts_aggressively, with all_concepts listed in `order`
ExtractConceptsAggressively(text, order) ==
    LET keep(clean) == /\ Len(clean) > 2
                       /\ Len(clean) < 50
                       /\ Lower(clean) \notin AggressiveCommonWords
                       /\ At(clean, 1) \notin DigitChars
        context(pos) == Lower(Slice(text, pos - CategoryWindow, pos + CategoryWindow - 1))
        gap(clean, concept) ==
            [concept |-> clean,
             category |-> IF HasWord(context(FindSub(text, concept)), AggressiveCriticalWords)
                          THEN "critical" ELSE "safe",
             explanation |-> DefaultExplanation(clean),
             whyNeeded |->
                 "This concept appears in the document and requires understanding."]
        add(gaps, clean, concept) ==
            IF keep(clean) THEN Append(gaps, gap(clean, concept)) ELSE gaps
        gap_of[i \in 0..Len(order)] ==
            IF i = 0 THEN <<>>
            ELSE add(gap_of[i - 1], Strip(order[i]), order[i])
    IN  gap_of[Len(order)]

-----------------------------------------------------------------------------
(* GapDetector._validate_and_fix_gaps, _validate_completeness_and_specificity, *)
(* _create_fallback_gap                                                      *)

\* _extract_concept_from_explanation: "" stands for None
ExtractConceptFromExplanation(explanation) ==
    LET first(matches) == IF matches = <<>> THEN "" ELSE matches[1]
    IN  first(SelectSeq(Phrases(explanation, 0, 2),
                        LAMBDA m : Len(m) > 3 /\ Len(m) < 50))

\* _extract_explanation_for_concept: "" stands for None
ExtractExplanationForConcept(concept, analysis_text) ==
    LET in_context(context, l) ==
            LET \* (?:explanation|description|definition)[\s:]+(.+?)
                start(a, r) == IF r = a THEN 0
                               ELSE IF r <= Len(l) THEN r
                               ELSE IF r - a >= 2 THEN r - 1
                               ELSE 0
                after(a) == start(a, RunEnd(l, a, Spaces \cup {":"}))
                label(p, ws) == IF ws = {} THEN 0
                                ELSE after(p + Len(CHOOSE w \in ws : TRUE))
                q(p) == label(p, {w \in {"explanation", "description", "definition"} :
                                     StartsAt(l, w, p)})
                stop(e) == \/ StartsAt(l, "\n\n", e + 1)
                           \/ StartsAt(l, "why", e + 1)
                           \/ StartsAt(l, "critical", e + 1)
                           \/ StartsAt(l, "safe", e + 1)
                           \/ AtEnd(l, e + 1)
                group(a) == Strip(Slice(context, a, Min({e \in a..Len(l) : stop(e)})))
                long(explanation) == IF Len(explanation) > 20 THEN Prefix(explanation, 500)
                                     ELSE ""
                leftmost(at) == IF at = {} THEN "" ELSE long(group(q(Min(at))))
            IN  leftmost({p \in 1..Len(l) : q(p) # 0})
        around(context) == in_context(context, Lower(context))
        found(idx) == IF idx = 0 THEN ""
                      ELSE around(Slice(analysis_text, idx - 200, idx + 299))
    IN  found(FindSub(Lower(analysis_text), Lower(concept)))

GenericExplanations(concept) ==
    { "This concept is important for understanding the course material.",
      DefaultExplanation(concept),
      "Review the analysis above for specific gaps." }

ValidateAndFixGaps(gaps, analysis_text) ==
    LET explain(explanation, better_explanation, concept) ==
            IF /\ Strip(explanation) \in GenericExplanations(concept)
               /\ better_explanation # ""
            THEN better_explanation ELSE explanation
        fixed(gap, concept, generic, better_concept) ==
            IF generic /\ better_concept = "" THEN <<>>
            ELSE << [gap EXCEPT
                        !.concept = IF generic THEN better_concept ELSE @,
                        !.explanation =
                            explain(@, ExtractExplanationForConcept(concept, analysis_text),
                                    concept)] >>
        one(gap, concept) ==
            fixed(gap, concept, IsGenericConcept(concept),
                  ExtractConceptFromExplanation(gap.explanation))
        validated[i \in 0..Len(gaps)] ==
            IF i = 0 THEN <<>>
            ELSE validated[i - 1] \o one(gaps[i], Strip(gaps[i].concept))
    IN  validated[Len(gaps)]

ValidateCompletenessAndSpecificity(gaps, doc_text) ==
    LET why(gap, g1, is_generic, improved) ==
            [g1 EXCEPT !.whyNeeded =
                IF gap.whyNeeded = "" THEN improved
                ELSE IF ~is_generic
                     THEN EnsureSpecificAndComplete(gap.whyNeeded, gap.concept)
                ELSE IF improved # "" /\ improved # gap.whyNeeded THEN improved
                ELSE EnsureCompleteSentence(gap.whyNeeded)]
        explained(gap, g1) ==
            why(gap, g1,
                \E phrase \in GenericWhyPhrasesFinal : Contains(Lower(gap.whyNeeded), phrase),
                GenerateSpecificWhyNeeded(g1, doc_text))
        one(gap) ==
            explained(gap,
                [gap EXCEPT !.explanation =
                    IF gap.explanation # ""
                    THEN EnsureCompleteSentence(gap.explanation)
                    ELSE gap.concept \o " is mentioned in the document but not fully explained."])
    IN  [i \in 1..Len(gaps) |-> one(gaps[i])]

\* The part of the analysis the fallback gap quotes
FallbackQuoteLen == 400

\* _create_fallback_gap: <<>> stands for None
CreateFallbackGap(analysis_text) ==
    LET ok(c) == Len(Strip(c)) > 3 /\ Len(Strip(c)) < 50
        gap(found) ==
            IF found = <<>> THEN <<>>
            ELSE << [concept |-> Strip(found[1]),
                     category |-> "safe",
                     explanation |-> IF Len(analysis_text) > FallbackQuoteLen
                                     THEN SubSeq(analysis_text, 1, FallbackQuoteLen) \o "..."
                                     ELSE analysis_text,
                     whyNeeded |-> "Review the analysis above for specific gaps."] >>
    IN  gap(SelectSeq(Phrases(analysis_text, 1, 3), ok)
            \o SelectSeq(CapsRuns(analysis_text), ok))

-----------------------------------------------------------------------------
(* GapDetector._force_critical_gaps and _ensure_specific_concepts (steps 7   *)
(* and 8 of detect_gaps), on the gaps the parser returns                     *)

AssignmentCommonWords ==
    {"Assignment", "Question", "Problem", "Exercise", "Task", "Solve", "Find",
     "Compute", "Calculate"}

ExplanationKeywords ==
    {"explain", "definition", "is", "are", "method", "algorithm", "technique"}

\* set(concepts) of _extract_concepts_from_assignments
AssignmentConcepts(assignment_context, document_text) ==
    LET explained(surrounding) ==
            /\ \E kw \in ExplanationKeywords : Contains(surrounding, kw)
            /\ Len(surrounding) >= 100
        around(doc, pos) == explained(Slice(doc, pos - 50, pos + 199))
        unexplained(doc, concept) ==
            Contains(doc, concept) /\ ~around(doc, FindSub(doc, concept))
        concepts(doc) ==
            { c \in Range(Phrases(assignment_context, 0, 2)) :
                /\ c \notin AssignmentCommonWords
                /\ Len(c) > 3
                /\ unexplained(doc, Lower(c)) }
    IN  concepts(Lower(document_text))

\* list(set(concepts))[:5]
MaxForced == 5

ForcedGap(concept) ==
    [concept |-> concept,
     category |-> "critical",
     explanation |-> concept \o " is required to solve assignment problems but is not fully explained in the notes.",
     whyNeeded |-> "This concept appears in assignment questions and is essential for completing the work."]

\* The loop without the test for a gap of the same concept
RECURSIVE AppendForced_NoCheck(_, _)
AppendForced_NoCheck(gaps, concepts) ==
    IF concepts = <<>> THEN gaps
    ELSE AppendForced_NoCheck(Append(gaps, ForcedGap(Head(concepts))), Tail(concepts))

\* The loop of _force_critical_gaps over list(set(concepts))[:5]
RECURSIVE AppendForced(_, _)
AppendForced(gaps, concepts) ==
    IF concepts = <<>> THEN gaps
    ELSE AppendForced(
             IF \E i \in 1..Len(gaps) : Lower(gaps[i].concept) = Lower(Head(concepts))
             THEN gaps ELSE Append(gaps, ForcedGap(Head(concepts))),
             Tail(concepts))

EnsureSpecificConcepts(gaps, document_text) ==
    LET replace(gap, better_concept, concepts_in_doc) ==
            IF better_concept # "" THEN [gap EXCEPT !.concept = better_concept]
            ELSE IF concepts_in_doc # <<>> THEN [gap EXCEPT !.concept = concepts_in_doc[1]]
            ELSE gap
        one(gap, concepts_in_doc) ==
            IF ~IsGenericConcept(Strip(gap.concept)) THEN gap
            ELSE replace(gap, ExtractConceptFromExplanation(gap.explanation), concepts_in_doc)
        all(concepts_in_doc) == [i \in 1..Len(gaps) |-> one(gaps[i], concepts_in_doc)]
    IN  all(Phrases(document_text, 0, 2))

\* One pattern of _extract_assignment_context, from position `from` on:
\* (?:k1|k2|...)\s*\d+[:\-]?\s*(.+?)(?:\n\n|$) with IGNORECASE, MULTILINE and
\* DOTALL; the stripped groups, cut to 200 characters, longer than 20
RECURSIVE AssignmentMatches(_, _, _)
AssignmentMatches(text, keywords, from) ==
    LET matches(l) ==
            LET colon(d) == IF At(l, d) \in {":", "-"} THEN d + 1 ELSE d
                start(g) == IF g > Len(l) THEN 0 ELSE g
                group(n, d) == IF d = n THEN 0 ELSE start(SkipSpace(l, colon(d)))
                number(n) == group(n, RunEnd(l, n, DigitChars))
                keyword(p, ks) == IF ks = {} THEN 0
                                  ELSE number(SkipSpace(l, p + Len(CHOOSE k \in ks : TRUE)))
                q(p) == keyword(p, {k \in keywords : StartsAt(l, k, p)})
                long(context) == IF Len(context) > 20 THEN <<context>> ELSE <<>>
                match(a, e) == long(Prefix(Strip(Slice(text, a, e)), 200))
                               \o AssignmentMatches(text, keywords, e + 1)
                line(a, nl) == match(a, IF nl = 0 THEN Len(text) ELSE nl - 1)
                group_at(a) == line(a, FindFrom(text, "\n", a))
                leftmost(at) == IF at = {} THEN <<>> ELSE group_at(q(Min(at)))
            IN  leftmost({p \in from..Len(l) : q(p) # 0})
    IN  matches(Lower(text))

\* _extract_assignment_context: "" stands for None
ExtractAssignmentContext(text) ==
    LET join(contexts) == JoinWith(SubSeq(contexts, 1, Min({5, Len(contexts)})), "\n")
    IN  join(AssignmentMatches(text, {"assignment", "homework", "problem set",
                                      "question", "exercise", "task"}, 1)
             \o AssignmentMatches(text, {"question"}, 1)
             \o AssignmentMatches(text, {"problem"}, 1))

-----------------------------------------------------------------------------
(* _parse_gaps_from_analysis, pass by pass, and steps 7 and 8 of detect_gaps *)
(* on the list it returns                                                    *)

CanonicalCritical ==
    "CRITICAL GAP: Power Method\nExplanation: The power method finds the dominant eigenvalue.\nWhy Needed: Required for Assignment 3, Question 2."
CanonicalSafe ==
    "SAFE GAP: Matrix Condition Number\nExplanation: Measures sensitivity to numerical error.\nWhy Needed: Enhances understanding of stability."

\* The well-formed example with two gaps
CanonicalText == CanonicalCritical \o "\n\n" \o CanonicalSafe \o "\n"

\* Sections the analysis texts are put together from: the two gaps of the
\* example, a section without a marker, one with both markers in the short
\* form, and a marker followed by a bullet
SectionBlocks ==
    { CanonicalCritical,
      CanonicalSafe,
      "It is also required for the exam.",
      "critical: Eigenvalues are safe: to skip",
      "Safe gap - Norms" }

\* How many sections a text put together from the blocks has at most
MaxSections == 2

RECURSIVE BlockTexts(_)
BlockTexts(n) ==
    IF n = 1 THEN SectionBlocks
    ELSE BlockTexts(n - 1) \cup
         {t \o "\n\n" \o b : t \in BlockTexts(n - 1), b \in SectionBlocks}

\* Analysis texts with a finding each: a generic concept whose explanation
\* names a concept that is there already, fields longer than the caps,
\* error texts, short and long, texts without gaps, the list formats,
\* generic gaps, a concept that stays generic, and generic gaps next to
\* acronyms that are written in two ways
ParseTexts ==
    { CanonicalText,
      CanonicalCritical \o "\n\nSAFE GAP: Missing background\nExplanation: The notes skip Power Method entirely.\nWhy Needed: Required for Assignment 3, Question 2.",
      "CRITICAL GAP: Power Method\nExplanation: " \o Rep("a", 600) \o "\nWhy Needed: Required for Assignment 3, Question 2.",
      "CRITICAL GAP: Power Method\nExplanation: The power method finds it.\nWhy Needed: " \o Rep("b", 400),
      "SAFE GAP: Norms\nExplanation: " \o Rep("Vector norms are used. ", 25),
      "Gap Analysis for CS101: due to content filtering.",
      "Please review your document manually and identify",
      FallbackAnalysis("CS101"),
      "The document is fine.",
      "1. CRITICAL\n\nPower Method\n\n2. SAFE\n\nEigenvalues",
      "Gaps found:\n1. Power Method\n2. Eigenvalue Decomposition: needed for the exam",
      "SAFE GAP: Knowledge gaps\nExplanation: the notes do not explain this.",
      "SAFE GAP: Missing background\nExplanation: Missing Values are never explained.\nWhy Needed: Required for Assignment 3, Question 2.",
      "safe gap: knowledge gaps\n\nsafe gap: missing information\n\nsafe gap: concepts mentioned\nexplanation: see PCA, Pca, SVD and Svd." }

\* Document texts: notes with a question, an assignment that names two
\* concepts, and a text without a capitalised word
ParseDocuments ==
    { "Notes on the Power Method. Question 2 asks for the dominant eigenvalue.",
      "Assignment 1, Question 1: fill in the Missing Values, then apply the Power Method.",
      "no capitals" }

\* A question that names six concepts
SixConceptsDocument ==
    "Question 3: use Gauss Rule, Euler Step, Newton Step, Jacobi Sweep, Simpson Rule, Heun Step."

\* A text that is put together from blocks goes with the last document; the
\* question with six concepts goes with a text without gaps and with a safe
\* gap that names one of the six in lower case
ParseInputs ==
    {[text |-> t, doc |-> d] : t \in ParseTexts, d \in ParseDocuments}
    \cup {[text |-> t, doc |-> "no capitals"] : t \in BlockTexts(MaxSections)}
    \cup {[text |-> t, doc |-> SixConceptsDocument] :
             t \in { "The document is fine.",
                     "SAFE GAP: euler step\nExplanation: The notes use it without a derivation.\nWhy Needed: Enhances understanding of stability." }}

paFrame == <<pa_text, pa_doc>>

\* Lines 196-199: an error or fallback message is rejected
ParseReject ==
    /\ pa_pc = "idle"
    /\ \E input \in ParseInputs :
        /\ IsErrorOrFallbackMessage(input.text)
        /\ pa_text' = input.text
        /\ pa_doc' = input.doc
    /\ pa_gaps' = <<>>
    /\ pa_pc' = "returned"
    /\ UNCHANGED <<pa_sections, pa_current, pa_ran>>
    /\ UNCHANGED nonParse

\* Lines 201-210: the text is split into sections
ParseStart ==
    /\ pa_pc = "idle"
    /\ \E input \in ParseInputs :
        /\ ~IsErrorOrFallbackMessage(input.text)
        /\ pa_text' = input.text
        /\ pa_doc' = input.doc
        /\ pa_sections' = Sections(input.text)
    /\ pa_pc' = "sections"
    /\ pa_ran' = {"primary"}
    /\ UNCHANGED <<pa_current, pa_gaps>>
    /\ UNCHANGED nonParse

\* Lines 212-288: one section of the loop
ParseSection ==
    /\ pa_pc = "sections"
    /\ pa_sections # <<>>
    /\ \E step \in {SectionStep(Head(pa_sections), pa_current)} :
           /\ pa_gaps' = IF step.closed # NoGap THEN Append(pa_gaps, step.closed)
                         ELSE pa_gaps
           /\ pa_current' = step.open
    /\ pa_sections' = Tail(pa_sections)
    /\ UNCHANGED <<pa_pc, pa_ran, paFrame>>
    /\ UNCHANGED nonParse

\* Lines 290-292: the gap that is open at the end is added
ParsePrimaryEnd ==
    /\ pa_pc = "sections"
    /\ pa_sections = <<>>
    /\ pa_gaps' = IF pa_current # NoGap THEN Append(pa_gaps, pa_current) ELSE pa_gaps
    /\ pa_current' = NoGap
    /\ pa_pc' = "alternative"
    /\ UNCHANGED <<pa_sections, pa_ran, paFrame>>
    /\ UNCHANGED nonParse

\* Lines 294-296
ParseAlternative ==
    /\ pa_pc = "alternative"
    /\ IF pa_gaps = <<>>
       THEN /\ pa_gaps' = ParseAlternativeFormat(pa_text)
            /\ pa_ran' = pa_ran \cup {"alternative"}
       ELSE UNCHANGED <<pa_gaps, pa_ran>>
    /\ pa_pc' = "list"
    /\ UNCHANGED <<pa_sections, pa_current, paFrame>>
    /\ UNCHANGED nonParse

\* Lines 298-300
ParseList ==
    /\ pa_pc = "list"
    /\ IF pa_gaps = <<>>
       THEN /\ pa_gaps' = ParseListFormat(pa_text)
            /\ pa_ran' = pa_ran \cup {"list"}
       ELSE UNCHANGED <<pa_gaps, pa_ran>>
    /\ pa_pc' = "cleanup"
    /\ UNCHANGED <<pa_sections, pa_current, paFrame>>
    /\ UNCHANGED nonParse

\* Line 303
ParseCleanup ==
    /\ pa_pc = "cleanup"
    /\ pa_gaps' = CleanupGaps(pa_gaps, pa_doc)
    /\ pa_pc' = "generic"
    /\ UNCHANGED <<pa_sections, pa_current, pa_ran, paFrame>>
    /\ UNCHANGED nonParse

\* Lines 305-313: generic gaps give way to the concepts of the aggressive
\* extraction when those are more; list(set(...)) lists them in any order
ParseGeneric ==
    /\ pa_pc = "generic"
    /\ IF IsGenericGaps(pa_gaps)
       THEN /\ \E order \in Orders(AggressiveConcepts(pa_text)) :
                \E improved_gaps \in {ExtractConceptsAggressively(pa_text, order)} :
                    pa_gaps' = IF Len(improved_gaps) > Len(pa_gaps)
                               THEN CleanupGaps(improved_gaps, pa_doc)
                               ELSE pa_gaps
            /\ pa_ran' = pa_ran \cup {"aggressive"}
       ELSE UNCHANGED <<pa_gaps, pa_ran>>
    /\ pa_pc' = "fix"
    /\ UNCHANGED <<pa_sections, pa_current, paFrame>>
    /\ UNCHANGED nonParse

\* Line 316
ParseValidateFix ==
    /\ pa_pc = "fix"
    /\ pa_gaps' = ValidateAndFixGaps(pa_gaps, pa_text)
    /\ pa_pc' = "complete"
    /\ UNCHANGED <<pa_sections, pa_current, pa_ran, paFrame>>
    /\ UNCHANGED nonParse

\* Line 319
ParseCompleteness ==
    /\ pa_pc = "complete"
    /\ pa_gaps' = ValidateCompletenessAndSpecificity(pa_gaps, pa_doc)
    /\ pa_pc' = "fallback"
    /\ UNCHANGED <<pa_sections, pa_current, pa_ran, paFrame>>
    /\ UNCHANGED nonParse

\* Lines 321-328: the fallback gap and the return
ParseFallback ==
    /\ pa_pc = "fallback"
    /\ IF pa_gaps = <<>>
       THEN /\ pa_gaps' = CreateFallbackGap(pa_text)
            /\ pa_ran' = pa_ran \cup {"fallback"}
       ELSE UNCHANGED <<pa_gaps, pa_ran>>
    /\ pa_pc' = "returned"
    /\ UNCHANGED <<pa_sections, pa_current, paFrame>>
    /\ UNCHANGED nonParse

\* detect_gaps, lines 150-154: critical gaps from the assignments when the
\* parser found none; list(set(concepts))[:5] lists them in any order.
\* (Step 6 in front of it, _enhance_gaps_with_rag, adds rag_context and
\* page_references to a gap and leaves the list and the four fields alone.)
ParsedForceCritical ==
    /\ pa_pc = "returned"
    /\ \E assignment_context \in {ExtractAssignmentContext(pa_doc)} :
           IF /\ assignment_context # ""
              /\ ~\E i \in 1..Len(pa_gaps) : pa_gaps[i].category = "critical"
           THEN /\ \E order \in Orders(AssignmentConcepts(assignment_context, pa_doc)) :
                       pa_gaps' = AppendForced(pa_gaps,
                                               SubSeq(order, 1, Min({MaxForced, Len(order)})))
                /\ pa_ran' = pa_ran \cup {"gaps_force_critical"}
           ELSE UNCHANGED <<pa_gaps, pa_ran>>
    /\ pa_pc' = "specific"
    /\ UNCHANGED <<pa_sections, pa_current, paFrame>>
    /\ UNCHANGED nonParse

\* detect_gaps, line 157, and the return
ParsedEnsureSpecific ==
    /\ pa_pc = "specific"
    /\ pa_gaps' = EnsureSpecificConcepts(pa_gaps, pa_doc)
    /\ pa_pc' = "done"
    /\ UNCHANGED <<pa_sections, pa_current, pa_ran, paFrame>>
    /\ UNCHANGED nonParse

ParseIdle ==
    /\ pa_pc = "idle"
    /\ pa_text = ""
    /\ pa_doc = ""
    /\ pa_sections = <<>>
    /\ pa_current = NoGap
    /\ pa_gaps = <<>>
    /\ pa_ran = {}

ParseNext ==
    \/ ParseReject
    \/ ParseStart
    \/ ParseSection
    \/ ParsePrimaryEnd
    \/ ParseAlternative
    \/ ParseList
    \/ ParseCleanup
    \/ ParseGeneric
    \/ ParseValidateFix
    \/ ParseCompleteness
    \/ ParseFallback
    \/ ParsedForceCritical
    \/ ParsedEnsureSpecific

-----------------------------------------------------------------------------
(* VectorDB.add_documents (vector_db.py), called from several threads *)

\* The threads that call add_documents on the one VectorDB
AddCallers == {"c1", "c2"}

\* How many calls a thread makes at most
MaxAddCalls == 2

Item(id, document_id, page, text) ==
    [id |-> id, document_id |-> document_id, page |-> page, text |-> text]

\* documents, metadatas and ids of a call, one record per document: a second
\* run on docA, a first run on docC, a run on docA that has a chunk more
\* than the index, nothing at all, and the same id twice
AddBatches ==
    { << Item(ChunkId("docA", 0), "docA", 1, TextShort),
         Item(ChunkId("docA", 1), "docA", 1, TextOther) >>,
      << Item(ChunkId("docC", 0), "docC", 1, TextShort) >>,
      << Item(ChunkId("docA", 2), "docA", 2, TextShort),
         Item(ChunkId("docA", 3), "docA", 3, TextOther) >>,
      << >>,
      << Item("note", "docC", 0, TextShort), Item("note", "docC", 0, TextOther) >> }

Ids(items) == {items[i].id : i \in 1..Len(items)}
StoredIds(coll) == {r.id : r \in coll}
HasRepeatedId(items) == Cardinality(Ids(items)) < Len(items)

Stored(key, item) ==
    [key |-> key, id |-> item.id, document_id |-> item.document_id,
     page |-> item.page, text |-> item.text]

Raised(coll) == [raised |-> TRUE, coll |-> coll]
Done(coll) == [raised |-> FALSE, coll |-> coll]

\* self.collection.get(ids=ids): the ids the collection holds; the call may
\* raise, which add_documents takes for "none of them"
CollectionGet(coll, ids) == {ids \cap StoredIds(coll), {}}

\* A collection.add that stores a record for every item, whatever the
\* collection holds
CollectionAdd_Append(coll, items) ==
    LET top == IF coll = {} THEN 0 ELSE Max({r.key : r \in coll})
    IN  { Raised(coll),
          Done(coll \cup {Stored(top + i, items[i]) : i \in 1..Len(items)}) }

\* self.collection.add: the ids of a collection are unique. An id that comes
\* twice in the call is an error; an id the collection holds already is an
\* error or is passed over, depending on the version of the library; the
\* call may raise for other reasons.
CollectionAdd(coll, items) ==
    LET top == IF coll = {} THEN 0 ELSE Max({r.key : r \in coll})
        fresh == {i \in 1..Len(items) : items[i].id \notin StoredIds(coll)}
    IN  {Raised(coll)} \cup
        (IF HasRepeatedId(items) THEN {}
         ELSE {Done(coll \cup {Stored(top + i, items[i]) : i \in fresh})})

\* self.collection.upsert: the record of an id the collection holds is
\* replaced, the others are added
CollectionUpsert(coll, items) ==
    LET top == IF coll = {} THEN 0 ELSE Max({r.key : r \in coll})
        key(i) == IF items[i].id \in StoredIds(coll)
                  THEN (CHOOSE r \in coll : r.id = items[i].id).key
                  ELSE top + i
    IN  {Raised(coll)} \cup
        (IF HasRepeatedId(items) THEN {}
         ELSE {Done({r \in coll : r.id \notin Ids(items)}
                    \cup {Stored(key(i), items[i]) : i \in 1..Len(items)})})

AdSet(f, t, v) == [f EXCEPT ![t] = v]

\* Lines 154-158: no documents
AddInvalid(t) ==
    /\ ad_pc[t] \in {"idle", "returned", "raised"}
    /\ ad_runs[t] < MaxAddCalls
    /\ ad_runs' = AdSet(ad_runs, t, ad_runs[t] + 1)
    /\ ad_batch' = AdSet(ad_batch, t, <<>>)
    /\ ad_existing' = AdSet(ad_existing, t, {})
    /\ ad_pc' = AdSet(ad_pc, t, "raised")
    /\ UNCHANGED collection
    /\ UNCHANGED nonAdd

\* Entry with documents, embeddings, metadatas and ids
AddCall(t) ==
    /\ ad_pc[t] \in {"idle", "returned", "raised"}
    /\ ad_runs[t] < MaxAddCalls
    /\ ad_runs' = AdSet(ad_runs, t, ad_runs[t] + 1)
    /\ \E items \in AddBatches \ {<<>>} : ad_batch' = AdSet(ad_batch, t, items)
    /\ ad_existing' = AdSet(ad_existing, t, {})
    /\ ad_pc' = AdSet(ad_pc, t, "get")
    /\ UNCHANGED collection
    /\ UNCHANGED nonAdd

\* Lines 170-179: existing_ids
AddGet(t) ==
    /\ ad_pc[t] = "get"
    /\ \E existing_ids \in CollectionGet(collection, Ids(ad_batch[t])) :
           ad_existing' = AdSet(ad_existing, t, existing_ids)
    /\ ad_pc' = AdSet(ad_pc, t, "add")
    /\ UNCHANGED <<ad_batch, ad_runs, collection>>
    /\ UNCHANGED nonAdd

\* Lines 181-204: the documents whose id is not in existing_ids are added;
\* an exception leads to the upsert
AddNew(t) ==
    /\ ad_pc[t] = "add"
    /\ \E new_docs \in {SelectSeq(ad_batch[t], LAMBDA item : item.id \notin ad_existing[t])} :
           IF new_docs = <<>>
           THEN /\ ad_pc' = AdSet(ad_pc, t, "returned")
                /\ UNCHANGED collection
           ELSE \E outcome \in CollectionAdd(collection, new_docs) :
                    /\ collection' = outcome.coll
                    /\ ad_pc' = AdSet(ad_pc, t, IF outcome.raised THEN "upsert"
                                                ELSE "returned")
    /\ UNCHANGED <<ad_batch, ad_existing, ad_runs>>
    /\ UNCHANGED nonAdd

\* Lines 205-221: the upsert of all the documents of the call; its exception
\* is raised to the caller
AddUpsert(t) ==
    /\ ad_pc[t] = "upsert"
    /\ \E outcome \in CollectionUpsert(collection, ad_batch[t]) :
           /\ collection' = outcome.coll
           /\ ad_pc' = AdSet(ad_pc, t, IF outcome.raised THEN "raised" ELSE "returned")
    /\ UNCHANGED <<ad_batch, ad_existing, ad_runs>>
    /\ UNCHANGED nonAdd

AddIdle ==
    /\ ad_pc = [t \in AddCallers |-> "idle"]
    /\ ad_batch = [t \in AddCallers |-> <<>>]
    /\ ad_existing = [t \in AddCallers |-> {}]
    /\ ad_runs = [t \in AddCallers |-> 0]

AddNext ==
    \E t \in AddCallers :
        \/ AddInvalid(t)
        \/ AddCall(t)
        \/ AddGet(t)
        \/ AddNew(t)
        \/ AddUpsert(t)

-----------------------------------------------------------------------------
(* LLMService.analyze_document_for_gaps: the text the prompt is built from   *)
(* (llm_service.py)                                                          *)

\* LLMService._sanitize_text: " ".join(text.split()), cut at max_length
SanitizeText(text, max_length) ==
    IF text = "" THEN "" ELSE Prefix(Strip(SqueezeSpace(text)), max_length)

\* max_length of the call of _sanitize_text, and the length of the excerpt
\* document_text[:4000] of the simplified prompt
MaxAnalysisLen == 12000
ExcerptLen == 4000

\* Lines 465-473
ShortDocumentLen == 2000
MediumDocumentLen == 5000
MinCharsShort == 1000
MinCharsMedium == 1500
MinCharsLarge == 2000
MinChunksThreshold == 5

MinCharsThreshold(document_char_count) ==
    IF document_char_count < ShortDocumentLen THEN MinCharsShort
    ELSE IF document_char_count < MediumDocumentLen THEN MinCharsMedium
    ELSE MinCharsLarge

\* [c.strip() for c in rag_context.split('\n\n') if c.strip()]
RagChunks(context) ==
    LET strip(parts) == [i \in 1..Len(parts) |-> Strip(parts[i])]
    IN  SelectSeq(strip(Split(context, "\n\n")), LAMBDA c : c # "")

\* The test without the count of the chunks
RagIsSufficient_CharsOnly(document, context) ==
    /\ context # ""
    /\ Len(context) >= MinCharsThreshold(Len(document))

\* Lines 453-480: rag_is_sufficient
RagIsSufficient(document, context) ==
    /\ context # ""
    /\ Len(RagChunks(context)) >= MinChunksThreshold
    /\ Len(context) >= MinCharsThreshold(Len(document))

\* Lines 482-488: analysis_text
AnalysisText(document, context) ==
    IF RagIsSufficient(document, context) THEN context ELSE document

\* A context of `chunks` chunks, `length` characters in all
RagText(chunks, length) ==
    Rep("r\n\n", chunks - 1) \o Rep("r", length - 3 * (chunks - 1))

\* Documents on both sides of 2000, 5000 and 12000 characters
PromptDocuments == {Rep("d", n) : n \in {100, 1999, 2000, 4999, 5000, 13000}}

\* Contexts of 1 to 6 chunks on both sides of 1000, 1500 and 2000
\* characters; contexts with blank chunks, of blanks only, and none
PromptContexts ==
    { RagText(chunks, length) :
        chunks \in {1, 4, 5, 6}, length \in {999, 1000, 1499, 1500, 1999, 2000} }
    \cup { "", "  \n\n ",
           RagText(4, 2100) \o "\n\n  \n\n ",
           RagText(4, 2100) \o "\n\n  \n\nr" }

\* Entry of analyze_document_for_gaps
PromptStart ==
    /\ pr_pc = "idle"
    /\ \E document \in PromptDocuments, context \in PromptContexts :
        /\ pr_document_text' = document
        /\ pr_rag_context' = context
    /\ pr_pc' = "build"
    /\ UNCHANGED pr_prompts
    /\ UNCHANGED nonPrompt

\* Lines 450-510: the user prompt of the first attempt
PromptBuild ==
    /\ pr_pc = "build"
    /\ pr_prompts' = Append(pr_prompts,
           [prompt |-> "full",
            text |-> SanitizeText(AnalysisText(pr_document_text, pr_rag_context),
                                  MaxAnalysisLen)])
    /\ pr_pc' = "sent"
    /\ UNCHANGED <<pr_document_text, pr_rag_context>>
    /\ UNCHANGED nonPrompt

\* Lines 561-582: the simplified prompt that follows a safety block
PromptSimplify ==
    /\ pr_pc = "sent"
    /\ pr_prompts' = Append(pr_prompts,
           [prompt |-> "simplified", text |-> Prefix(pr_document_text, ExcerptLen)])
    /\ pr_pc' = "simplified"
    /\ UNCHANGED <<pr_document_text, pr_rag_context>>
    /\ UNCHANGED nonPrompt

PromptIdle ==
    /\ pr_pc = "idle"
    /\ pr_document_text = ""
    /\ pr_rag_context = ""
    /\ pr_prompts = <<>>

PromptNext ==
    \/ PromptStart
    \/ PromptBuild
    \/ PromptSimplify

-----------------------------------------------------------------------------
(* LLMService.chat_with_context (llm_service.py) *)

\* The order of the tests in the except block of chat_with_context
ChatClassify(error_str) ==
    IF IsModelNotFound(error_str) THEN "model_not_found"
    ELSE IF \/ Contains(Lower(error_str), "context")
            \/ Contains(Lower(error_str), "length")
            \/ Contains(Lower(error_str), "token")
         THEN "context_length"
    ELSE IF IsSafetyBlock(error_str) THEN "safety"
    ELSE "other"

\* Messages the provider raises for a chat request
ChatErrorMessages ==
    ErrorMessages \cup { "The input token count exceeds the maximum",
                         "Context blocked: too long" }

\* The kinds of error the messages fall into
ChatErrorTypes == {ChatClassify(e) : e \in ChatErrorMessages}

\* How often chat_with_context calls itself with a smaller context
MaxChatDepth == 1

\* _initialize_chat_llm: the client of the model that was initialised, None
\* when the client cannot be built
InitializeChatLLM(model_name, built) == IF built THEN model_name ELSE NoModel

\* llm_to_use = self.chat_llm if self.chat_llm is not None else self.llm
LLMToUse == IF chat_llm # NoModel THEN chat_llm ELSE llm

\* One llm_to_use.invoke call: the model it went to, the model the service
\* reported, the kind of error it raised and the model the service fell
\* back to
ChatInvocation(err, fallback) ==
    [model |-> LLMToUse, reported |-> initialized_model,
     error_type |-> err, fallback |-> fallback]

\* `continue`; after the last iteration the loop ends and the final raise runs
ChatContinue ==
    /\ ch_attempt' = ch_attempt + 1
    /\ ch_pc' = IF ch_attempt + 1 < MaxRetries THEN "running" ELSE "raised"

chatFrame == <<gemini_model, ctor_fails, llm_pc, attempt, user_prompt, invoked,
               raise_reason, analysis, course_code, chat_llm>>

nonChat == <<searchVars, ragVars, detectVars, streamVars, embedVars, chunkVars,
             parseVars, addVars, promptVars, threadVars>>

\* Entry of chat_with_context on a constructed service
ChatStart ==
    /\ ch_pc \in {"idle", "returned", "apology", "raised"}
    /\ ch_pc' = "running"
    /\ ch_attempt' = 0
    /\ ch_depth' = 0
    /\ ch_message' = "full"
    /\ ch_invoked' = <<>>
    /\ UNCHANGED <<llm, initialized_model, chatFrame>>
    /\ UNCHANGED nonChat

\* The invoke succeeds: the content of the response is returned
ChatInvokeOk ==
    /\ ch_pc = "running"
    /\ ch_invoked' = Append(ch_invoked, ChatInvocation("", NoModel))
    /\ ch_pc' = "returned"
    /\ UNCHANGED <<ch_attempt, ch_depth, ch_message>>
    /\ UNCHANGED <<llm, initialized_model, chatFrame>>
    /\ UNCHANGED nonChat

\* The invoke raises a model-not-found error: the service is re-initialised
\* after the model it reports, and the loop goes on; when that fails the
\* last attempt raises
ChatInvokeModelNotFound ==
    /\ ch_pc = "running"
    /\ \E error_type \in {"model_not_found"} \cap ChatErrorTypes,
          next_model \in {ReinitializeWithFallback(gemini_model, initialized_model,
                                                    ctor_fails)} :
        /\ ch_invoked' = Append(ch_invoked, ChatInvocation(error_type, next_model))
        /\ IF next_model = NoModel
           THEN UNCHANGED <<llm, initialized_model>>
           ELSE llm' = next_model /\ initialized_model' = next_model
    /\ ChatContinue
    /\ UNCHANGED <<ch_depth, ch_message>>
    /\ UNCHANGED chatFrame
    /\ UNCHANGED nonChat

\* The invoke raises a context-length error: chat_with_context calls itself
\* with the last 5 messages and 4000 characters of context
ChatInvokeContextLength ==
    /\ ch_pc = "running"
    /\ ch_depth < MaxChatDepth
    /\ \E error_type \in {"context_length"} \cap ChatErrorTypes :
        ch_invoked' = Append(ch_invoked, ChatInvocation(error_type, NoModel))
    /\ ch_depth' = ch_depth + 1
    /\ ch_attempt' = 0
    /\ ch_message' = "full"
    /\ UNCHANGED ch_pc
    /\ UNCHANGED <<llm, initialized_model, chatFrame>>
    /\ UNCHANGED nonChat

\* The invoke is blocked by the safety filter: the message is sanitised and
\* the loop goes on, the last attempt returns the apology
ChatInvokeSafetyBlocked ==
    /\ ch_pc = "running"
    /\ \E error_type \in {"safety"} \cap ChatErrorTypes :
        ch_invoked' = Append(ch_invoked, ChatInvocation(error_type, NoModel))
    /\ IF ch_attempt < MaxRetries - 1
       THEN ch_message' = "sanitized" /\ ChatContinue
       ELSE ch_pc' = "apology" /\ UNCHANGED <<ch_message, ch_attempt>>
    /\ UNCHANGED ch_depth
    /\ UNCHANGED <<llm, initialized_model, chatFrame>>
    /\ UNCHANGED nonChat

\* Any other error: the loop goes on, the last attempt raises
ChatInvokeOtherError ==
    /\ ch_pc = "running"
    /\ \E error_type \in {"other"} \cap ChatErrorTypes :
        ch_invoked' = Append(ch_invoked, ChatInvocation(error_type, NoModel))
    /\ ChatContinue
    /\ UNCHANGED <<ch_depth, ch_message>>
    /\ UNCHANGED <<llm, initialized_model, chatFrame>>
    /\ UNCHANGED nonChat

\* __init__ after _initialize_llm: the chat client, no request made
ChatInit ==
    /\ chat_llm \in {InitializeChatLLM(initialized_model, built) : built \in BOOLEAN}
    /\ ch_pc = "idle"
    /\ ch_attempt = 0
    /\ ch_depth = 0
    /\ ch_message = "full"
    /\ ch_invoked = <<>>

\* The chat client built for the model of the service
ChatIdle ==
    /\ ChatInit
    /\ chat_llm = initialized_model

ChatNext ==
    \/ ChatStart
    \/ ChatInvokeOk
    \/ ChatInvokeModelNotFound
    \/ ChatInvokeContextLength
    \/ ChatInvokeSafetyBlocked
    \/ ChatInvokeOtherError

-----------------------------------------------------------------------------
(* LLMService.analyze_document_for_gaps called from two analysis threads on *)
(* the one service of get_gap_service                                       *)

\* The kinds of error the messages of the provider fall into
ErrorTypes == {Classify(e) : e \in ErrorMessages}

\* The threads of two analyze_document_stream requests
AnalysisThreads == {"t1", "t2"}

ThSet(f, t, v) == [f EXCEPT ![t] = v]

\* One self.llm.invoke call of a thread: the model behind self.llm and the
\* model_name the thread read from self.initialized_model
ThreadInvocation(t, error_type) ==
    [thread |-> t, model |-> llm, reported |-> th_model_name[t],
     error_type |-> error_type]

threadFrame == <<gemini_model, ctor_fails, llm_pc, attempt, user_prompt, invoked,
                 raise_reason, analysis, course_code>>

nonThread == <<searchVars, ragVars, detectVars, streamVars, embedVars, chunkVars,
               parseVars, addVars, promptVars, chatVars>>

\* Entry of analyze_document_for_gaps in thread t
ThreadStart(t) ==
    /\ th_pc[t] = "idle"
    /\ th_pc' = ThSet(th_pc, t, "loop")
    /\ UNCHANGED <<th_attempt, th_prompt, th_model_name, th_sent, th_next,
                   th_invoked, th_reinit>>
    /\ UNCHANGED <<llm, initialized_model, threadFrame>>
    /\ UNCHANGED nonThread

\* Line 523: model_name = self.initialized_model or 'unknown'
ThreadReadModel(t) ==
    /\ th_pc[t] = "loop"
    /\ th_model_name' = ThSet(th_model_name, t, initialized_model)
    /\ th_pc' = ThSet(th_pc, t, "invoke")
    /\ UNCHANGED <<th_attempt, th_prompt, th_sent, th_next, th_invoked, th_reinit>>
    /\ UNCHANGED <<llm, initialized_model, threadFrame>>
    /\ UNCHANGED nonThread

\* Line 529: self.llm.invoke(messages) returns
ThreadInvokeOk(t) ==
    /\ th_pc[t] = "invoke"
    /\ th_invoked' = th_invoked \cup {ThreadInvocation(t, "")}
    /\ th_pc' = ThSet(th_pc, t, "returned")
    /\ UNCHANGED <<th_attempt, th_prompt, th_model_name, th_sent, th_next, th_reinit>>
    /\ UNCHANGED <<llm, initialized_model, threadFrame>>
    /\ UNCHANGED nonThread

\* Line 529 raises a model-not-found error: the except block is entered
ThreadInvokeModelNotFound(t) ==
    /\ th_pc[t] = "invoke"
    /\ \E error_type \in {"model_not_found"} \cap ErrorTypes :
        th_invoked' = th_invoked \cup {ThreadInvocation(t, error_type)}
    /\ th_sent' = ThSet(th_sent, t, llm)
    /\ th_pc' = ThSet(th_pc, t, "except")
    /\ UNCHANGED <<th_attempt, th_prompt, th_model_name, th_next, th_reinit>>
    /\ UNCHANGED <<llm, initialized_model, threadFrame>>
    /\ UNCHANGED nonThread

\* Line 529 is blocked by the safety filter: the simplified prompt and the
\* next attempt, the fallback analysis after the last one
ThreadInvokeSafetyBlocked(t) ==
    /\ th_pc[t] = "invoke"
    /\ \E error_type \in {"safety"} \cap ErrorTypes :
        th_invoked' = th_invoked \cup {ThreadInvocation(t, error_type)}
    /\ IF th_attempt[t] < MaxRetries - 1
       THEN /\ th_prompt' = ThSet(th_prompt, t, "simplified")
            /\ th_attempt' = ThSet(th_attempt, t, th_attempt[t] + 1)
            /\ th_pc' = ThSet(th_pc, t, "loop")
       ELSE /\ th_pc' = ThSet(th_pc, t, "fallback")
            /\ UNCHANGED <<th_prompt, th_attempt>>
    /\ UNCHANGED <<th_model_name, th_sent, th_next, th_reinit>>
    /\ UNCHANGED <<llm, initialized_model, threadFrame>>
    /\ UNCHANGED nonThread

\* Line 529 raises any other error: the call raises
ThreadInvokeOtherError(t) ==
    /\ th_pc[t] = "invoke"
    /\ \E error_type \in {"other"} \cap ErrorTypes :
        th_invoked' = th_invoked \cup {ThreadInvocation(t, error_type)}
    /\ th_pc' = ThSet(th_pc, t, "raised")
    /\ UNCHANGED <<th_attempt, th_prompt, th_model_name, th_sent, th_next, th_reinit>>
    /\ UNCHANGED <<llm, initialized_model, threadFrame>>
    /\ UNCHANGED nonThread

\* Line 554: self._reinitialize_with_fallback(self.initialized_model), up to
\* the client of the first candidate; the call raises when there is none
ThreadReinitialize(t) ==
    /\ th_pc[t] = "except"
    /\ \E next_model \in {ReinitializeWithFallback(gemini_model, initialized_model,
                                                    ctor_fails)} :
        /\ th_reinit' = th_reinit \cup
               {[thread |-> t, sent |-> th_sent[t], failed_model |-> initialized_model,
                 fallback |-> next_model]}
        /\ th_next' = ThSet(th_next, t, next_model)
        /\ th_pc' = ThSet(th_pc, t, IF next_model = NoModel THEN "raised" ELSE "set_llm")
    /\ UNCHANGED <<th_attempt, th_prompt, th_model_name, th_sent, th_invoked>>
    /\ UNCHANGED <<llm, initialized_model, threadFrame>>
    /\ UNCHANGED nonThread

\* Line 304: self.llm = ChatVertexAI(**init_kwargs)
ThreadSetLLM(t) ==
    /\ th_pc[t] = "set_llm"
    /\ llm' = th_next[t]
    /\ th_pc' = ThSet(th_pc, t, "set_model")
    /\ UNCHANGED <<th_attempt, th_prompt, th_model_name, th_sent, th_next,
                   th_invoked, th_reinit>>
    /\ UNCHANGED <<initialized_model, threadFrame>>
    /\ UNCHANGED nonThread

\* Line 305: self.initialized_model = model_name, the return and `continue`
ThreadSetModel(t) ==
    /\ th_pc[t] = "set_model"
    /\ initialized_model' = th_next[t]
    /\ th_attempt' = ThSet(th_attempt, t, th_attempt[t] + 1)
    /\ th_pc' = ThSet(th_pc, t, IF th_attempt[t] + 1 < MaxRetries THEN "loop"
                               ELSE "raised")
    /\ UNCHANGED <<th_prompt, th_model_name, th_sent, th_next, th_invoked, th_reinit>>
    /\ UNCHANGED <<llm, threadFrame>>
    /\ UNCHANGED nonThread

ThreadIdle ==
    /\ th_pc = [t \in AnalysisThreads |-> "idle"]
    /\ th_attempt = [t \in AnalysisThreads |-> 0]
    /\ th_prompt = [t \in AnalysisThreads |-> "full"]
    /\ th_model_name = [t \in AnalysisThreads |-> NoModel]
    /\ th_sent = [t \in AnalysisThreads |-> NoModel]
    /\ th_next = [t \in AnalysisThreads |-> NoModel]
    /\ th_invoked = {}
    /\ th_reinit = {}

ThreadNext ==
    \E t \in AnalysisThreads :
        \/ ThreadStart(t)
        \/ ThreadReadModel(t)
        \/ ThreadInvokeOk(t)
        \/ ThreadInvokeModelNotFound(t)
        \/ ThreadInvokeSafetyBlocked(t)
        \/ ThreadInvokeOtherError(t)
        \/ ThreadReinitialize(t)
        \/ ThreadSetLLM(t)
        \/ ThreadSetModel(t)

-----------------------------------------------------------------------------
(* Specifications *)

GeminiModels == {"gemini-2.5-pro", "gemini-3-pro-preview"}
CtorFailChoices ==
    { {},
      {"gemini-2.5-flash", "gemini-2.0-pro-exp"},
      {"gemini-2.5-flash", "gemini-2.0-pro-exp", "gemini-2.0-flash-exp",
       "gemini-2.0-flash", "gemini-3-pro-preview", "gemini-1.5-flash"} }

\* LLMService.__init__
LLMInit ==
    /\ gemini_model \in GeminiModels
    /\ ctor_fails \in CtorFailChoices
    /\ llm = InitializeLLM(gemini_model, ctor_fails)
    /\ initialized_model = llm
    /\ llm_pc = "idle"
    /\ attempt = 0
    /\ user_prompt = "full"
    /\ invoked = <<>>
    /\ raise_reason = "none"
    /\ analysis = ""
    /\ course_code = "Course"

\* The service as constructed with the default settings, no call made
LLMIdle ==
    /\ LLMInit
    /\ gemini_model = "gemini-2.5-pro"
    /\ ctor_fails = {}

LLMNext ==
    \/ AnalyzeStart
    \/ LLMInvokeOk
    \/ LLMInvokeModelNotFound
    \/ LLMInvokeSafetyBlocked
    \/ LLMInvokeOtherError

\* The components outside the pipeline, no request running
OtherIdle ==
    /\ StreamIdle
    /\ EmbedIdle
    /\ ChunkIdle
    /\ ParseIdle
    /\ AddIdle
    /\ PromptIdle
    /\ ChatIdle
    /\ ThreadIdle

\* Every component constructed, no call running
Idle ==
    /\ LLMIdle
    /\ SearchIdle
    /\ RagIdle
    /\ DetectIdle
    /\ OtherIdle

\* The service constructed under any configuration
LLMSpecInit ==
    /\ LLMInit
    /\ SearchIdle
    /\ RagIdle
    /\ DetectIdle
    /\ OtherIdle

SpecLLM == LLMSpecInit /\ [][LLMNext]_vars

SpecSearch == Idle /\ [][SearchNext]_vars

SpecRag == Idle /\ [][RagNext]_vars

SpecDetect == Idle /\ [][DetectNext]_vars

\* One GapDetector, a call of detect_gaps or of a retrieval method at a time
DetectorNext ==
    \/ rag_pc = "idle" /\ DetectNext
    \/ dg_pc = "idle" /\ RagNext

SpecDetector == Idle /\ [][DetectorNext]_vars

SpecStream == Idle /\ [][StreamNext]_vars

SpecEmbed == Idle /\ [][EmbedNext]_vars

SpecChunk == Idle /\ [][ChunkNext]_vars

\* The loop of a call that has started keeps running until it returns
SpecChunkLive == Idle /\ [][ChunkLiveNext]_vars /\ WF_vars(ChunkStep)

SpecParse == Idle /\ [][ParseNext]_vars

SpecAdd == Idle /\ [][AddNext]_vars

\* The service constructed under any configuration, with or without a chat
\* client
ChatSpecInit ==
    /\ LLMInit
    /\ SearchIdle
    /\ RagIdle
    /\ DetectIdle
    /\ StreamIdle
    /\ EmbedIdle
    /\ ChunkIdle
    /\ ParseIdle
    /\ AddIdle
    /\ PromptIdle
    /\ ChatInit
    /\ ThreadIdle

SpecChat == ChatSpecInit /\ [][ChatNext]_vars

SpecThreads == Idle /\ [][ThreadNext]_vars

SpecPrompt == Idle /\ [][PromptNext]_vars

-----------------------------------------------------------------------------
(* Claims about analyze_document_for_gaps, checked under SpecLLM *)

LastInvoked == invoked[Len(invoked)]
Failed(i) == invoked[i].error # ""
ErrorClass(i) == Classify(invoked[i].error)
Position(m) == IndexOf(ModelsToTry(gemini_model), m)
ModelsAfter(m) ==
    {ModelsToTry(gemini_model)[i] : i \in (Position(m) + 1)..Len(ModelsToTry(gemini_model))}

\* C2: a call invokes the LLM at most 3 times whatever mix of safety blocks and
\* model-not-found errors it meets (while the loop runs fewer than 3
\* invocations were made), and it ends in exactly one of: the model's analysis
\* returned, the fallback analysis returned, or an exception raised.
C2_AtMostThreeInvocations ==
    /\ Len(invoked) <= MaxRetries
    /\ llm_pc \in {"idle", "running"} \cup LLMTerminal
    /\ llm_pc = "running" => Len(invoked) = attempt /\ attempt < MaxRetries
    /\ llm_pc = "returned" =>
          /\ ~Failed(Len(invoked))
          /\ analysis \in LLMOutputs
          /\ raise_reason = "none"
    /\ llm_pc = "fallback" =>
          /\ analysis = FallbackAnalysis(course_code)
          /\ raise_reason = "none"
    /\ llm_pc = "raised" =>
          raise_reason \in {"fallback_failed", "non_safety_error", "retries_exhausted"}

\* C2 witness: a call that met a safety block and model-not-found errors and
\* ended after its third invocation.
C2_Witness ==
    /\ llm_pc = "raised"
    /\ Len(invoked) = MaxRetries
    /\ \E i \in 1..Len(invoked) : Failed(i) /\ ErrorClass(i) = "safety"
    /\ \E i \in 1..Len(invoked) : Failed(i) /\ ErrorClass(i) = "model_not_found"

\* C3 as stated: a call that raises after a model-not-found error has found
\* every model after the failed one unavailable.
C3_RaisesOnlyWhenListExhausted ==
    (llm_pc = "raised" /\ invoked # <<>> /\ ErrorClass(Len(invoked)) = "model_not_found")
        => ModelsAfter(LastInvoked.model) \subseteq ctor_fails

\* C3 amended: after a model-not-found error the next invocation goes to the
\* first model later in the priority list whose client can be built; the call
\* raises after a model-not-found error either because no later model can be
\* initialised, or because that error came on the third attempt.
C3_FallbackToNextModel ==
    /\ \A i \in 1..(Len(invoked) - 1) :
          ErrorClass(i) = "model_not_found" =>
              /\ Position(invoked[i + 1].model) > Position(invoked[i].model)
              /\ invoked[i + 1].model \notin ctor_fails
              /\ \A m \in ModelsAfter(invoked[i].model) :
                    Position(m) < Position(invoked[i + 1].model) => m \in ctor_fails
    /\ (llm_pc = "raised" /\ invoked # <<>> /\ ErrorClass(Len(invoked)) = "model_not_found") =>
          \/ /\ raise_reason = "fallback_failed"
             /\ ModelsAfter(LastInvoked.model) \subseteq ctor_fails
          \/ /\ raise_reason = "retries_exhausted"
             /\ Len(invoked) = MaxRetries
             /\ initialized_model \in ModelsAfter(LastInvoked.model)

\* C3 witness: the service switched models and then ran out of models.
C3_Witness ==
    /\ llm_pc = "raised"
    /\ raise_reason = "fallback_failed"
    /\ Len(invoked) >= 2
    /\ ErrorClass(1) = "model_not_found"

AllSafetyBlocked ==
    /\ invoked # <<>>
    /\ \A i \in 1..Len(invoked) : Failed(i) /\ ErrorClass(i) = "safety"

\* What the parsing passes would make of a text that is not rejected.
SampleParsed ==
    <<[concept |-> "Concepts mentioned", category |-> "safe",
       explanation |-> "", whyNeeded |-> ""]>>

\* C4: when every invocation of a call is safety-blocked the call does not
\* raise, every attempt after the first uses the simplified prompt, the call
\* ends after the third attempt with the fallback analysis, and
\* _parse_gaps_from_analysis returns no gap for that analysis.
C4_SafetyBlockedFallsBack ==
    AllSafetyBlocked =>
        /\ llm_pc # "raised"
        /\ invoked[1].prompt = "full"
        /\ \A i \in 2..Len(invoked) : invoked[i].prompt = "simplified"
        /\ llm_pc \in LLMTerminal =>
              /\ llm_pc = "fallback"
              /\ Len(invoked) = MaxRetries
              /\ analysis = FallbackAnalysis(course_code)
              /\ ParseGapsFromAnalysis(analysis, SampleParsed) = <<>>

\* C4 witness: a call whose three invocations were all safety-blocked.
C4_Witness ==
    /\ AllSafetyBlocked
    /\ llm_pc = "fallback"
    /\ Len(invoked) = MaxRetries

HasTransientFailure ==
    \E i \in 1..Len(invoked) : Failed(i) /\ ErrorClass(i) = "other"

-----------------------------------------------------------------------------
(* search_similar: claims *)

MainQueries == SelectSeq(ss_queries, LAMBDA q : q.kind = "main")

EveryQueryFailed == \A i \in 1..Len(ss_queries) : ss_queries[i].outcome # "ok"

\* The call has returned after three failed main attempts.
MainAttemptsExhausted ==
    /\ ss_pc = "returned"
    /\ Len(MainQueries) = 3
    /\ \A i \in 1..3 : MainQueries[i].outcome # "ok"

\* C6 as stated: once the three main attempts have failed the result is the
\* empty one.
C6_EmptyWhenMainAttemptsExhausted ==
    MainAttemptsExhausted => ss_result = EmptyResults

\* C6: search_similar never raises: it makes at most three main query
\* attempts, sleeps 0.5 s and then 1.0 s between them, and returns the empty
\* result when every query it issued has failed; after three failed main
\* attempts a result is not empty only if it is that of a last query with
\* fewer results or without filter that succeeded.
C6_SearchNeverRaises ==
    /\ ss_pc # "raised"
    /\ Len(MainQueries) <= 3
    /\ ss_sleeps \in {<<>>, <<5>>, <<5, 10>>}
    /\ ss_pc = "attempting" => Len(ss_sleeps) = Len(MainQueries)
    /\ ss_pc = "returned" => Len(ss_sleeps) \in {Len(MainQueries) - 1, Len(MainQueries)}
    /\ (ss_pc = "returned" /\ EveryQueryFailed) => ss_result = EmptyResults
    /\ (MainAttemptsExhausted /\ ss_result # EmptyResults) =>
           /\ ss_queries[Len(ss_queries)].kind \in {"reduced", "unfiltered"}
           /\ ss_queries[Len(ss_queries)].outcome = "ok"

\* Three main attempts have failed, with both waits, and the call returned.
C6_Witness ==
    /\ ss_pc = "returned"
    /\ Len(MainQueries) = 3
    /\ EveryQueryFailed
    /\ ss_sleeps = <<5, 10>>
    /\ ss_result = EmptyResults

\* C7: a search_similar call with a document_id filter returns only chunks
\* of that document, whichever path produced the result.
C7_OnlyRequestedDocument ==
    (ss_pc = "returned" /\ ss_where.kind = "document_id") =>
        \A i \in 1..Len(ss_result.ids) :
            ss_result.metadatas[i].document_id = ss_where.value

\* Every result search_similar returns is one of SearchSimilarReturns.
SearchReturnsCovered ==
    ss_pc = "returned" =>
        ss_result \in SearchSimilarReturns(collection, ss_dist, ss_n, ss_where)

-----------------------------------------------------------------------------
(* Retrieval: claims *)

\* part is a chunk the index returned within the threshold, or the leading
\* part of one
FromWithin(part) ==
    /\ part # ""
    /\ \E t \in rag_within : part = Prefix(t, Len(part))

\* C8: every chunk in the output of _retrieve_rag_context,
\* get_context_for_gap, get_context_for_gaps or in a gap's rag_context was
\* returned by the index with a distance of at most 1.5; a chunk returned
\* without distance never appears.
C8_ChunksWithinDistance ==
    /\ \A i \in 1..Len(context_parts) : FromWithin(context_parts[i])
    /\ (rag_pc = "returned" /\ rag_op # "_enhance_gaps_with_rag" /\ rag_output.type = "str")
           => rag_output.text = Join(context_parts, "\n\n")
    /\ \A i \in 1..Len(enhanced_gaps) :
           enhanced_gaps[i].rag_context \in
               {""} \cup rag_within \cup {a \o "\n\n" \o b : a, b \in rag_within}

\* A call has returned chunks after the index gave it results without
\* distances and results with a chunk above the threshold.
C8_Witness ==
    /\ rag_pc = "returned"
    /\ context_parts # <<>>
    /\ rag_dropped = {"no_distance", "above_threshold"}

ProbeNames(probes) == [i \in 1..Len(probes) |-> probes[i].name]

\* C9: in _retrieve_rag_context a probe that fails neither stops the probes
\* after it nor raises to the caller, and when no probe gives a chunk within
\* the threshold the result is the empty string.
C9_ProbeFailureIsolated ==
    rag_op = "_retrieve_rag_context" =>
        /\ rag_pc # "raised"
        /\ \E len \in DocumentLengths, ci \in CourseInfos :
               ProbeNames(rag_log \o rag_todo)
                   = ProbeNames(RetrieveProbes(len, ci, DefaultNChunks))
        /\ rag_pc = "returned" =>
               /\ rag_todo = <<>>
               /\ rag_within = {} => rag_output = StrValue("")

\* The first probe failed, a later one gave chunks, and they were returned.
C9_Witness ==
    /\ rag_op = "_retrieve_rag_context"
    /\ rag_pc = "returned"
    /\ Len(rag_log) >= 3
    /\ rag_log[1].outcome = "failed"
    /\ \E i \in 2..Len(rag_log) : rag_log[i].outcome = "ok"
    /\ rag_output # StrValue("")

\* C10: the final context of _retrieve_rag_context and of
\* get_context_for_gaps holds no two chunks with the same trimmed text.
C10_NoDuplicateChunks ==
    (rag_pc = "returned" /\ rag_op \in {"_retrieve_rag_context", "get_context_for_gaps"}) =>
        \A i, j \in 1..Len(context_parts) :
            i # j => Strip(context_parts[i]) # Strip(context_parts[j])

-----------------------------------------------------------------------------
(* detect_gaps: claims *)

StagesBeforeFinish ==
    << "embeddings_generating", "embeddings_generated", "vector_db_storing",
       "vector_db_stored", "rag_retrieving", "rag_retrieved", "llm_analyzing",
       "llm_analyzed", "gaps_parsing", "gaps_parsed", "gaps_enhancing", "gaps_enhanced" >>

FullSequence(force) ==
    StagesBeforeFinish \o (IF force THEN <<"gaps_force_critical">> ELSE <<>>)
                       \o <<"completed">>

IsPrefixOf(a, b) == Len(a) <= Len(b) /\ a = SubSeq(b, 1, Len(a))

\* C1: the observer of detect_gaps gets the stages in the fixed order, each
\* at most once; a run that returns has emitted the whole sequence ending in
\* completed, a run that raises has emitted a prefix of it without completed.
C1_EventOrder ==
    /\ \E force \in BOOLEAN : IsPrefixOf(dg_events, FullSequence(force))
    /\ dg_pc = "returned" => \E force \in BOOLEAN : dg_events = FullSequence(force)
    /\ dg_pc = "raised" =>
           /\ IsPrefixOf(dg_events, StagesBeforeFinish)
           /\ \A i \in 1..Len(dg_events) : dg_events[i] # "completed"

\* A run with an assignment and no critical gap has returned after
\* gaps_force_critical and completed.
C1_Witness ==
    /\ dg_pc = "returned"
    /\ dg_events = FullSequence(TRUE)

-----------------------------------------------------------------------------
(* get_context_for_gaps: the character budget *)

\* C11: the context string get_context_for_gaps returns has at most
\* max_total_chars characters.
C11_WithinBudget ==
    (rag_pc = "returned" /\ rag_op = "get_context_for_gaps") =>
        Len(rag_output.text) <= rag_max_total_chars

-----------------------------------------------------------------------------
(* analyze_document_stream: the progress queue *)

\* The stages the client got from the progress queue, in the order sent
RECURSIVE SentFromQueue(_)
SentFromQueue(sent) ==
    IF sent = <<>> THEN <<>>
    ELSE (IF Head(sent).queued THEN <<Head(sent).stage>> ELSE <<>>)
             \o SentFromQueue(Tail(sent))

\* C12: the events sent to the client from the progress queue are the events
\* the worker put on it, each once and in the order queued, and once the
\* generator has ended no event the worker put is left unsent.
C12_EveryQueuedEventSent ==
    /\ IsPrefixOf(SentFromQueue(an_sent), an_put)
    /\ an_pc = "done" => SentFromQueue(an_sent) = an_put

-----------------------------------------------------------------------------
(* Embedder: the lazily loaded model *)

-----------------------------------------------------------------------------
(* chunk_text: termination and coverage *)

\* C14: a call of chunk_text or chunk_text_with_pages returns, whatever the
\* text, chunk_size and overlap (overlap >= chunk_size included): every
\* iteration that does not end the loop moves start forward, and no chunk
\* in the list is empty after trimming.
C14_ChunkingTerminates ==
    /\ [][ck_pc = "running" => ck_start' > ck_start]_vars
    /\ [](\A i \in 1..Len(ck_chunks) :
              /\ ck_chunks[i].text # ""
              /\ Strip(ck_chunks[i].text) = ck_chunks[i].text)
    /\ (ck_pc = "running") ~> (ck_pc = "returned")

\* A call with overlap >= chunk_size has returned after several iterations
C14_Witness ==
    /\ ck_pc = "returned"
    /\ ck_overlap >= ck_chunk_size
    /\ Len(ck_windows) >= 3
    /\ Len(ck_chunks) >= 2

\* The characters of the text that are not whitespace (positions from 1)
NonSpacePositions == { p \in 1..Len(ck_text) : ~IsSpace(SubSeq(ck_text, p, p)) }

\* C15: each window of chunk_text starts at or before the end of the window
\* before it, the first at the start of the text and the last reaching its
\* end, and every character that is not whitespace lies in a window whose
\* trimmed text is one of the chunks.
C15_ChunksCoverText ==
    /\ \A i \in 1..Len(ck_windows) :
           ck_windows[i].start <= (IF i = 1 THEN 0 ELSE ck_windows[i - 1].end)
    /\ ck_pc = "running" => ck_windows = <<>> \/ ck_start <= ck_windows[Len(ck_windows)].end
    /\ ck_pc = "returned" =>
           /\ \A p \in NonSpacePositions :
                  \E i \in 1..Len(ck_windows) :
                      /\ ck_windows[i].kept
                      /\ ck_windows[i].start < p
                      /\ p <= ck_windows[i].end
           /\ Len(ck_chunks) = Cardinality({i \in 1..Len(ck_windows) : ck_windows[i].kept})
           /\ \A i \in 1..Len(ck_windows) :
                  ck_windows[i].kept =>
                      \E j \in 1..Len(ck_chunks) :
                          ck_chunks[j].text =
                              Strip(PySlice(ck_text, ck_windows[i].start, ck_windows[i].end))

\* A text cut at a separator into several chunks, with whitespace at a cut
C15_Witness ==
    /\ ck_pc = "returned"
    /\ ck_op = "chunk_text"
    /\ Len(ck_chunks) >= 2
    /\ \E i \in 1..Len(ck_windows) :
           /\ ck_windows[i].end < ck_windows[i].start + ck_chunk_size
           /\ ck_windows[i].end < Len(ck_text)
    /\ \E i \in 1..Len(ck_windows) : ~ck_windows[i].kept

-----------------------------------------------------------------------------
(* Claims about _parse_gaps_from_analysis and the last two steps of          *)
(* detect_gaps, checked under SpecParse                                      *)

\* C16: an analysis text that holds two or more of the error indicators, or
\* both "gap analysis for" and "due to content filtering", is returned as the
\* empty list, and no parsing strategy and no fallback gap is run on it.
C16_ErrorTextRejected ==
    /\ pa_pc # "idle"
    /\ \/ ErrorCount(pa_text) >= 2
       \/ /\ Contains(Lower(pa_text), "gap analysis for")
          /\ Contains(Lower(pa_text), "due to content filtering")
    => /\ pa_ran = {}
       /\ pa_pc = "returned" => pa_gaps = <<>>

\* C17: no two gaps of the list _parse_gaps_from_analysis returns, and no two
\* gaps of the list detect_gaps returns in the end, have concepts that are
\* equal when case is ignored.
C17_NoDuplicateConcepts ==
    pa_pc \in {"returned", "done"} =>
        \A i, j \in 1..Len(pa_gaps) :
            Lower(pa_gaps[i].concept) = Lower(pa_gaps[j].concept) => i = j

\* C18: every gap _parse_gaps_from_analysis returns has an explanation of 1
\* to 500 characters and a whyNeeded of 1 to 300 characters.
C18_FieldsWithinCaps ==
    pa_pc = "returned" =>
        \A i \in 1..Len(pa_gaps) :
            /\ pa_gaps[i].explanation # ""
            /\ Len(pa_gaps[i].explanation) <= MaxExplanationLen
            /\ pa_gaps[i].whyNeeded # ""
            /\ Len(pa_gaps[i].whyNeeded) <= MaxWhyNeededLen

\* C19: no gap of the list detect_gaps returns has a concept that matches a
\* generic pattern, the gaps of the force-critical step included.
C19_NoGenericConcept ==
    pa_pc = "done" =>
        \A i \in 1..Len(pa_gaps) : ~IsGenericConcept(pa_gaps[i].concept)

\* The sections of the text the loop has been through
SeenSections ==
    SubSeq(Sections(pa_text), 1, Len(Sections(pa_text)) - Len(pa_sections))

\* A section carries a gap marker: one of the four patterns matches
HasMarker(section) ==
    MarkerMatch(section, "critical") # "" \/ MarkerMatch(section, "safe") # ""

\* The category and the concept name a marked section gives its gap
MarkedCategory(section) ==
    IF MarkerMatch(section, "critical") # "" THEN "critical" ELSE "safe"
MarkedConcept(section) ==
    ConceptOf(MarkerMatch(section, IF MarkerMatch(section, "critical") # ""
                                   THEN "critical" ELSE "safe"))

\* The gaps the primary pass has opened so far, the open one last
OpenedGaps ==
    pa_gaps \o (IF pa_current # NoGap THEN <<pa_current>> ELSE <<>>)

\* C20: in the primary pass the gaps opened so far are, in order, one for each
\* section with a marker that the loop has been through (critical when a
\* CRITICAL marker matches, safe otherwise, with the marker's concept), a
\* section without a marker opens none, and at the end of the input the open
\* gap is closed; the example with two gaps gives the critical gap and then
\* the safe one.
C20_PrimaryPass ==
    pa_pc \in {"sections", "alternative"} =>
        /\ LET marked == SelectSeq(SeenSections, HasMarker)
           IN  /\ Len(OpenedGaps) = Len(marked)
               /\ \A i \in 1..Len(marked) :
                      /\ OpenedGaps[i].category = MarkedCategory(marked[i])
                      /\ OpenedGaps[i].concept = MarkedConcept(marked[i])
        /\ pa_pc = "alternative" => pa_current = NoGap /\ pa_sections = <<>>
        /\ pa_pc = "alternative" /\ pa_text = CanonicalText =>
               pa_gaps =
                   << [concept |-> "Power Method", category |-> "critical",
                       explanation |-> "The power method finds the dominant eigenvalue.",
                       whyNeeded |-> "Required for Assignment 3, Question 2."],
                      [concept |-> "Matrix Condition Number", category |-> "safe",
                       explanation |-> "Measures sensitivity to numerical error.",
                       whyNeeded |-> "Enhances understanding of stability."] >>

\* The primary pass is through the example: a critical gap, then a safe one
C20_Witness ==
    /\ pa_pc = "alternative"
    /\ pa_text = CanonicalText
    /\ Len(pa_gaps) = 2
    /\ pa_gaps[1].category = "critical"
    /\ pa_gaps[2].category = "safe"

\* C21: the pass over generic gaps goes on with the larger of the two lists,
\* the cleaned list it started from or the cleaned list of the aggressive
\* extraction: the list never gets shorter in this pass.
C21_KeepsLargerSet ==
    [][pa_pc = "generic" /\ pa_pc' = "fix" => Len(pa_gaps') >= Len(pa_gaps)]_vars

-----------------------------------------------------------------------------
(* Empty input, checked under SpecDetector *)

\* C22: detect_gaps on a document without extraction or with empty text
\* raises with no progress event emitted and no call of the embedder, the
\* vector index or the LLM made, and get_context_for_gaps with an empty list
\* of concepts returns "" with no probe (embedding and search) run.
C22_EmptyInputRejectedFirst ==
    /\ dg_pc # "idle" /\ (~dg_document.extraction \/ dg_document.text = "") =>
           /\ dg_pc = "raised"
           /\ dg_events = <<>>
           /\ dg_calls = {}
           /\ dg_chunks = <<>>
    /\ rag_op = "get_context_for_gaps" /\ rag_input = <<>> =>
           /\ rag_pc = "returned"
           /\ rag_log = <<>>
           /\ rag_output = StrValue("")

C22_Witness ==
    \/ dg_pc = "raised" /\ ~dg_document.extraction
    \/ dg_pc = "raised" /\ dg_document.extraction /\ dg_document.text = ""
    \/ rag_pc = "returned" /\ rag_op = "get_context_for_gaps" /\ rag_input = <<>>

-----------------------------------------------------------------------------
(* add_documents: the ids of the collection, checked under SpecAdd *)

UniqueIds(coll) == \A r1, r2 \in coll : r1.id = r2.id => r1 = r2

-----------------------------------------------------------------------------
(* analyze_document_for_gaps: the text of the prompt, checked under          *)
(* SpecPrompt                                                                *)

\* The context has at least 5 non-empty chunks and at least 1000, 1500 or
\* 2000 characters, by the size of the document
ContextAccepted ==
    /\ Len(RagChunks(pr_rag_context)) >= 5
    /\ Len(pr_rag_context) >= (IF Len(pr_document_text) < 2000 THEN 1000
                               ELSE IF Len(pr_document_text) < 5000 THEN 1500
                               ELSE 2000)

\* C24: a prompt for the LLM is built from the RAG context only when the
\* context has at least 5 non-empty chunks and at least 1000 / 1500 / 2000
\* characters for a document of less than 2000 / less than 5000 / 5000 or
\* more characters; in every other case, an empty context included, it is
\* built from the document text (the first prompt of a call from the context
\* when that is accepted, the simplified prompt from the document always).
C24_PromptSource ==
    \A i \in 1..Len(pr_prompts) :
        /\ pr_prompts[i].prompt = "full" =>
               pr_prompts[i].text = SanitizeText(IF ContextAccepted THEN pr_rag_context
                                                 ELSE pr_document_text, 12000)
        /\ pr_prompts[i].prompt = "simplified" =>
               pr_prompts[i].text = Prefix(pr_document_text, 4000)
        /\ ~ContextAccepted => Prefix(pr_prompts[i].text, 100) = Rep("d", 100)
        /\ Prefix(pr_prompts[i].text, 1) = "r" => ContextAccepted

\* A prompt built from a context of 5 chunks and 2000 characters for a
\* document of 5000
C24_Witness ==
    /\ Len(pr_prompts) >= 1
    /\ Len(pr_document_text) = 5000
    /\ pr_rag_context = RagText(5, 2000)
    /\ pr_prompts[1].text = SanitizeText(pr_rag_context, 12000)
    /\ Prefix(pr_prompts[1].text, 3) = "r r"

-----------------------------------------------------------------------------
(* Step 7 of detect_gaps, checked under SpecParse *)

\* C25: step 7 of detect_gaps emits gaps_force_critical and injects gaps
\* exactly when the document text yields an assignment context and no gap is
\* critical; the injection leaves the gaps that are there as they are and
\* appends at most 5 gaps, all critical, none with the concept of a gap in
\* front of it when case is ignored; otherwise the list stays as it is.
C25_ForceCritical ==
    [][pa_pc = "returned" /\ pa_pc' = "specific" =>
        LET force == /\ ExtractAssignmentContext(pa_doc) # ""
                     /\ \A i \in 1..Len(pa_gaps) : pa_gaps[i].category # "critical"
            before == Len(pa_gaps)
        IN  /\ "gaps_force_critical" \in pa_ran' <=> force
            /\ ~force => pa_gaps' = pa_gaps
            /\ Len(pa_gaps') >= before
            /\ SubSeq(pa_gaps', 1, before) = pa_gaps
            /\ Len(pa_gaps') - before <= 5
            /\ \A j \in (before + 1)..Len(pa_gaps') :
                   /\ pa_gaps'[j].category = "critical"
                   /\ \A i \in 1..(j - 1) :
                          Lower(pa_gaps'[i].concept) # Lower(pa_gaps'[j].concept)]_vars

\* Five of the six concepts of the question injected after a safe gap
C25_Witness ==
    /\ pa_pc = "specific"
    /\ pa_doc = SixConceptsDocument
    /\ "gaps_force_critical" \in pa_ran
    /\ Len(pa_gaps) = 5
    /\ pa_gaps[1].category = "safe"
    /\ \A j \in 2..5 : pa_gaps[j].category = "critical"

-----------------------------------------------------------------------------
(* A section without a marker while a gap is open, checked under SpecParse *)

\* C26: while a gap is open, a section without a marker adds to the gap and
\* loses nothing of it: the explanation and the whyNeeded the gap holds are
\* still part of the explanation and the whyNeeded it holds afterwards.
C26_ContinuationKeeps ==
    [][/\ pa_pc = "sections" /\ pa_sections # <<>> /\ pa_current # NoGap
       /\ MarkerMatch(Head(pa_sections), "critical") = ""
       /\ MarkerMatch(Head(pa_sections), "safe") = ""
       => /\ pa_current' # NoGap
          /\ pa_current'.concept = pa_current.concept
          /\ Contains(pa_current'.explanation, pa_current.explanation)
          /\ Contains(pa_current'.whyNeeded, pa_current.whyNeeded)]_vars

-----------------------------------------------------------------------------
(* chat_with_context after a re-initialisation, checked under SpecChat *)

\* C27: in chat_with_context, after an invocation failed with model-not-found
\* and the service was re-initialised with a fallback model, the next
\* invocation goes to that fallback model and not to the model that failed.
C27_RetryOnFallback ==
    \A i \in 1..(Len(ch_invoked) - 1) :
        ch_invoked[i].error_type = "model_not_found"
        /\ ch_invoked[i].fallback # NoModel
        => /\ ch_invoked[i + 1].model = ch_invoked[i].fallback
           /\ ch_invoked[i + 1].model # ch_invoked[i].model

-----------------------------------------------------------------------------
(* The terminal event of analyze_document_stream, checked under SpecStream *)

\* C28: a run of analyze_document_stream sends exactly one terminal event,
\* one 'completed' or one 'error' and never both, and no event after it,
\* whether the analysis returns gaps, returns no gaps, raises or is still
\* running when the polling loop stops.
C28_OneTerminalEvent ==
    LET terminal == {i \in 1..Len(an_sent) : an_sent[i].stage \in {"completed", "error"}}
    IN  /\ Cardinality(terminal) <= 1
        /\ \A i \in terminal : i = Len(an_sent)
        /\ an_pc = "done" => Cardinality(terminal) = 1

-----------------------------------------------------------------------------
(* Two analyses on one service, checked under SpecThreads *)

\* C29: when two analyses run on one service and get model-not-found, each
\* fallback goes to the model right after the one whose invocation failed,
\* every model in front of the initialised one has been invoked, and every
\* invocation goes to the model the service reported as initialised.
C29_FallbackAfterFailed ==
    /\ \A r \in th_reinit :
           r.fallback = ReinitializeWithFallback(gemini_model, r.sent, ctor_fails)
    /\ \A k \in 1..(IndexOf(ModelsToTry(gemini_model), initialized_model) - 1) :
           \E r \in th_invoked : r.model = ModelsToTry(gemini_model)[k]
    /\ \A r \in th_invoked : r.model = r.reported

-----------------------------------------------------------------------------
(* What _enhance_gaps_with_rag changes, checked under SpecRag *)

\* The texts of at most 2 chunks of the collection, joined
UpToTwoChunks ==
    LET texts == {r.text : r \in collection}
    IN  {""} \cup texts \cup {a \o "\n\n" \o b : a \in texts, b \in texts}

\* C30: _enhance_gaps_with_rag returns the gaps it was given in their order
\* with concept, category, explanation and whyNeeded as they were; it adds
\* rag_context, of at most 2 chunks, and page_references and nothing else,
\* and a gap whose retrieval failed is in the list as it was given.
C30_EnhanceFrame ==
    rag_op = "_enhance_gaps_with_rag" =>
        /\ Len(enhanced_gaps) = Len(rag_log)
        /\ Len(enhanced_gaps) + Len(rag_todo) = Len(rag_input)
        /\ \A i \in 1..Len(enhanced_gaps) :
               /\ [enhanced_gaps[i] EXCEPT
                       !.rag_context = rag_input[i].rag_context,
                       !.page_references = rag_input[i].page_references] = rag_input[i]
               /\ enhanced_gaps[i].rag_context \in UpToTwoChunks
               /\ Len(enhanced_gaps[i].page_references) <= 2
               /\ rag_log[i].outcome # "ok" => enhanced_gaps[i] = rag_input[i]
        /\ rag_pc = "returned" => Len(enhanced_gaps) = Len(rag_input)

\* Three gaps returned: the retrieval of the first failed, the second has no
\* concept, the third got two chunks and their pages
C30_Witness ==
    /\ rag_op = "_enhance_gaps_with_rag"
    /\ rag_pc = "returned"
    /\ Len(rag_input) = 3
    /\ rag_log[1].outcome = "failed"
    /\ rag_log[2].outcome = "skipped"
    /\ rag_log[3].outcome = "ok"
    /\ enhanced_gaps[1] = rag_input[1]
    /\ Contains(enhanced_gaps[3].rag_context, "\n\n")
    /\ enhanced_gaps[3].page_references # <<>>
    /\ enhanced_gaps[3].concept = rag_input[3].concept

====
